---- MODULE Spec2Model ----
(***************************************************************************)
(* Model of the rent roll extractor (rent_roll_extraktor_v2_1_FINAL.py)    *)
(* and of the way the API server (app.py) calls it.                        *)
(*                                                                         *)
(* Texts are sequences of characters; a character is a one-character       *)
(* string, S("abc") = <<"a", "b", "c">>.  The characters of the source     *)
(* outside ASCII are written as the named characters U_ae, U_euro, ...     *)
(* below, so that the module itself stays in ASCII.                        *)
(***************************************************************************)
EXTENDS Integers, Sequences, FiniteSets, TLC

(***************************************************************************)
(* Texts                                                                   *)
(***************************************************************************)
S(ascii) == [i \in 1..Len(ascii) |-> SubSeq(ascii, i, i)]

U_ae == <<"a-umlaut">>
U_oe == <<"o-umlaut">>
U_ue == <<"u-umlaut">>
U_eacute == <<"e-acute">>
U_agrave == <<"a-grave">>
U_eogonek == <<"e-ogonek">>
U_lstroke == <<"l-stroke">>
U_oacute == <<"o-acute">>
U_sup2 == <<"superscript-2">>
U_yuan == <<"yuan">>
U_euro == <<"euro">>
U_pound == <<"pound">>
U_yen == <<"yen">>
U_rupee == <<"rupee">>
U_ge == <<"greater-equal">>
U_le == <<"less-equal">>
U_endash == <<"en-dash">>
U_minus == <<"minus-sign">>

None == "None"

UpperCase == S("ABCDEFGHIJKLMNOPQRSTUVWXYZ")
LowerCase == S("abcdefghijklmnopqrstuvwxyz")
Digits == {"0", "1", "2", "3", "4", "5", "6", "7", "8", "9"}
Whitespace == {" ", "\t", "\n"}
\* the characters Python's \w matches: letters, digits and the underscore
WordChars ==
  {UpperCase[i] : i \in 1..26} \cup {LowerCase[i] : i \in 1..26} \cup Digits
    \cup {"_"}
    \cup {U_ae[1], U_oe[1], U_ue[1], U_eacute[1], U_agrave[1], U_eogonek[1],
          U_lstroke[1], U_oacute[1], U_sup2[1], U_yuan[1]}

Min(set) == CHOOSE x \in set : \A y \in set : x <= y
Max(set) == CHOOSE x \in set : \A y \in set : x >= y

\* str.lower(), one character
lower_char(c) ==
  IF \E i \in 1..26 : UpperCase[i] = c
  THEN LowerCase[CHOOSE i \in 1..26 : UpperCase[i] = c]
  ELSE c

\* str.lower()
lower(s) == [i \in 1..Len(s) |-> lower_char(s[i])]

\* str.strip()
Span(s, keep) == IF keep = {} THEN <<>> ELSE SubSeq(s, Min(keep), Max(keep))
strip(s) == Span(s, {i \in 1..Len(s) : s[i] \notin Whitespace})

\* str.startswith(prefix)
startswith(s, prefix) ==
  Len(prefix) <= Len(s) /\ SubSeq(s, 1, Len(prefix)) = prefix

\* sub in s
Contains(s, sub) ==
  \E i \in 1..(Len(s) - Len(sub) + 1) : SubSeq(s, i, i + Len(sub) - 1) = sub

\* re.sub(r'\s+', ' ', s)
RECURSIVE CollapseSpaces(_)
CollapseSpaces(s) ==
  IF s = <<>> THEN <<>>
  ELSE IF Head(s) \in Whitespace
       THEN IF Len(s) > 1 /\ s[2] \in Whitespace
            THEN CollapseSpaces(Tail(s))
            ELSE <<" ">> \o CollapseSpaces(Tail(s))
       ELSE <<Head(s)>> \o CollapseSpaces(Tail(s))

(***************************************************************************)
(* HeaderMapper                                                            *)
(***************************************************************************)
DEFAULT_SYNONYMS ==
  << [tag |-> "unit_id", syns |-> <<
        S("unit id"), S("unit-id"), S("unit number"), S("einheit"), S("einheit nr"),
        S("unit no"), S("mieteinheit"),
        S("num") \o U_eacute \o S("ro d'unit") \o U_eacute,
        S("numero unit") \o U_agrave, S("eenheidnummer") >>],
     [tag |-> "tenant_name", syns |-> <<
        S("tenant"), S("tenant name"), S("mieter"), S("mietername"), S("locataire"),
        S("nom du locataire"), S("inquilino"), S("huurder"), S("najemca"),
        S("hyresg") \o U_ae \o S("st"), S("customer"), S("kunde"), S("client") >>],
     [tag |-> "area_sqm", syns |-> <<
        S("area sqm"), S("area (sqm)"), S("fl") \o U_ae \o S("che m") \o U_sup2,
        S("fl") \o U_ae \o S("che (m") \o U_sup2 \o S(")"), S("sqm"), S("m") \o U_sup2,
        S("m2"), S("superficie (m") \o U_sup2 \o S(")"),
        S("oppervlakte (m") \o U_sup2 \o S(")"),
        S("powierzchnia (m") \o U_sup2 \o S(")") >>],
     [tag |-> "area_sqft", syns |-> <<
        S("area sqft"), S("area (sqft)"), S("sqft"), S("sq ft"), S("square feet"),
        S("sf") >>],
     [tag |-> "monthly_rent", syns |-> <<
        S("monthly rent"), S("rent"), S("miete"), S("monatliche miete"),
        S("monatsmiete"), S("loyer mensuel"), S("affitto mensile"),
        S("maandelijkse huur"), S("czynsz miesi") \o U_eogonek \o S("czny"), S("nkm"),
        S("nkm ist-miete"), S("netto kaltmiete"), S("cold rent") >>],
     [tag |-> "annual_rent", syns |-> <<
        S("annual rent"), S("yearly rent"), S("jahresmiete"), S("loyer annuel"),
        S("affitto annuale"), S("jaarlijkse huur"), S("roczny czynsz") >>],
     [tag |-> "lease_start", syns |-> <<
        S("lease start"), S("lease start date"), S("start date"), S("mietbeginn"),
        S("vertragsbeginn"), S("d") \o U_eacute \o S("but du bail"),
        S("inizio locazione"), S("startdatum") >>],
     [tag |-> "lease_end", syns |-> <<
        S("lease end"), S("lease end date"), S("end date"), S("mietende"),
        S("vertragsende"), S("laufzeitende"), S("fin du bail"), S("fine locazione"),
        S("einddatum") >>],
     [tag |-> "status", syns |-> <<
        S("status"), S("occupancy"), S("belegung"), U_eacute \o S("tat"), S("stato"),
        S("bezettingsstatus") >>],
     [tag |-> "currency", syns |-> <<
        S("currency"), S("w") \o U_ae \o S("hrung"), S("devise"), S("valuta"),
        S("moneda") >>],
     [tag |-> "lease_type", syns |-> <<
        S("lease type"), S("vertragsart"), S("mietvertragsart"), S("type de bail") >>],
     [tag |-> "usage_type", syns |-> <<
        S("usage type"), S("nutzungsart"), S("type d'utilisation"), S("uso") >>],
     [tag |-> "occupancy_rate", syns |-> <<
        S("occupancy rate"), S("belegungsquote"), S("taux d'occupation") >>],
     [tag |-> "service_charge", syns |-> <<
        S("service charge"), S("nebenkosten"), S("betriebskosten"), S("nk"),
        S("charges"), S("oneri accessori"), S("servicekosten") >>],
     [tag |-> "parking_spaces", syns |-> <<
        S("parking"), S("parking spaces"), S("parkpl") \o U_ae \o S("tze"),
        S("stellpl") \o U_ae \o S("tze"), S("places de parking"), S("posti auto"),
        S("parkeerplaatsen") >>],
     [tag |-> "sap_object_number", syns |-> <<
        S("sap objektnummer"), S("sap-objektnummer"), S("sap object number"),
        S("sap object"), S("sap-objektnr"), S("sap objektnr"), S("sap id"),
        S("sap-object"), S("sap objekt id"), S("sap-objekt") >>],
     [tag |-> "composite_unit_id", syns |-> <<
        S("mo/bk/wirtschaftseinheit/mo-nr"), S("mo/bk/wirtschaftseinheit/mo"),
        S("mo/bk/wi/mo-nr"), S("mo-bk-wirtschaftseinheit-mo-nr"),
        S("mo / bk / wirtschaftseinheit / mo-nr"), S("composite unit id"),
        S("composite unit"), S("mo bk wirtschaftseinheit mo nr") >>],
     [tag |-> "mo_number", syns |-> <<
        S("mo nummer"), S("mo-nummer"), S("mo nr"), S("mo-nr"), S("mo number"),
        S("mo no"), S("mietobjekt nummer"), S("mietobjekt-nr"), S("mietobjekt-nr.") >>],
     [tag |-> "business_unit", syns |-> <<
        S("wirtschaftseinheit"), S("business unit"), S("wirtschafts einheit"),
        S("wi einheit"), S("we"), S("we einheit") >>],
     [tag |-> "business_unit_code", syns |-> <<
        S("k") \o U_ue \o S("rzel der wirtschaftseinheit"),
        S("wirtschaftseinheit k") \o U_ue \o S("rzel"), S("we k") \o U_ue \o S("rzel"),
        S("unit code"), S("einheitsk") \o U_ue \o S("rzel"), S("c"), S("we code") >>],
     [tag |-> "bookkeeping_area", syns |-> <<
        S("bk"), S("buchungskreis"), S("booking area"), S("buchungsbereich") >>],
     [tag |-> "contractual_partner", syns |-> <<
        S("vertragspartner"), S("vrtragspartner"), S("contractual partner"),
        S("contract partner") >>],
     [tag |-> "contract_id", syns |-> <<
        S("contract id"), S("stammvertrag-id"), S("vertragsnummer"), S("vertrags-nr"),
        S("vertragsnr"), S("vertrags nr"), S("contract number"), S("contract no."),
        S("u") >>] >>

\* HeaderMapper.__init__ without a synonyms file: self.synonyms
synonyms == DEFAULT_SYNONYMS

\* re.sub(r'[^\w\s]', ' ', h)
PunctuationToSpaces(h) ==
  [i \in 1..Len(h) |-> IF h[i] \in WordChars \cup Whitespace THEN h[i] ELSE " "]

normalize_header(header) ==
  strip(CollapseSpaces(PunctuationToSpaces(strip(lower(header)))))

\* normalize_header(syn) for every synonym of the table
NormalizedSynonyms ==
  [i \in 1..Len(synonyms) |->
     [j \in 1..Len(synonyms[i].syns) |-> normalize_header(synonyms[i].syns[j])]]

\* the two tests of the inner loop of map_header, for synonym j of entry i
SynonymMatches(i, j, normalized) ==
  \/ NormalizedSynonyms[i][j] = normalized
  \/ /\ Len(synonyms[i].syns[j]) > 3
     /\ Contains(normalized, NormalizedSynonyms[i][j])

\* the entries of the table with a synonym that matches
MatchingEntries(normalized) ==
  {i \in 1..Len(synonyms) :
     \E j \in 1..Len(synonyms[i].syns) : SynonymMatches(i, j, normalized)}

\* the tag of the first entry of hits, None when the header is empty or
\* nothing matches
FirstTag(normalized, hits) ==
  IF normalized = <<>> THEN None
  ELSE IF hits = {} THEN None
  ELSE synonyms[Min(hits)].tag

map_header(raw_header) ==
  FirstTag(normalize_header(raw_header), MatchingEntries(normalize_header(raw_header)))


(***************************************************************************)
(* Values: a cell of a grid, a field of a record, a parse result.          *)
(* kind "none" is None/NaN; kind "text" is a str; kind "int" and "float"   *)
(* are numbers, the number being m / 10^e (e = 0 for an int), with no      *)
(* trailing zero decimal, so that equal numbers are equal values.          *)
(***************************************************************************)
NoneVal == [kind |-> "none", text |-> <<>>, m |-> 0, e |-> 0]
Txt(s) == [kind |-> "text", text |-> s, m |-> 0, e |-> 0]
Int_(n) == [kind |-> "int", text |-> <<>>, m |-> n, e |-> 0]

Pow10(k) == CASE k = 0 -> 1 [] k = 1 -> 10 [] k = 2 -> 100 [] k = 3 -> 1000
              [] k = 4 -> 10000 [] k = 5 -> 100000 [] k = 6 -> 1000000
              [] k = 7 -> 10000000 [] k = 8 -> 100000000 [] k = 9 -> 1000000000

RECURSIVE Float(_, _)
Float(m, e) ==
  IF e > 0 /\ m % 10 = 0 THEN Float(m \div 10, e - 1)
  ELSE [kind |-> "float", text |-> <<>>, m |-> m, e |-> e]

IsNone(v) == v.kind = "none"
IsNumber(v) == v.kind \in {"int", "float"}
Abs(n) == IF n < 0 THEN -n ELSE n

\* Python's truth value of v
Truthy(v) ==
  CASE v.kind = "none" -> FALSE
    [] v.kind = "text" -> v.text # <<>>
    [] OTHER -> v.m # 0

\* v < 0 and v > 1e9 for a number v
LessThanZero(v) == v.m < 0
GreaterThan1e9(v) ==
  LET whole == v.m \div Pow10(v.e)
  IN  whole > 1000000000 \/ (whole = 1000000000 /\ v.m % Pow10(v.e) > 0)

DigitChars == S("0123456789")
DigitValue(c) == (CHOOSE i \in 1..10 : DigitChars[i] = c) - 1

\* str(n) for a natural number n
RECURSIVE NatToText(_)
NatToText(n) ==
  IF n < 10 THEN <<DigitChars[n + 1]>>
  ELSE NatToText(n \div 10) \o <<DigitChars[(n % 10) + 1]>>

\* the k decimal digits of the fraction f / 10^k
RECURSIVE FractionToText(_, _)
FractionToText(f, k) ==
  IF k = 0 THEN <<>>
  ELSE FractionToText(f \div 10, k - 1) \o <<DigitChars[(f % 10) + 1]>>

\* str(v) for a number v: str(62210) = "62210", str(62210.0) = "62210.0"
str_number(v) ==
  LET sign == IF v.m < 0 THEN <<"-">> ELSE <<>>
      a == Abs(v.m)
  IN  IF v.kind = "int" THEN sign \o NatToText(a)
      ELSE IF v.e = 0 THEN sign \o NatToText(a) \o S(".0")
      ELSE sign \o NatToText(a \div Pow10(v.e)) \o <<".">>
             \o FractionToText(a % Pow10(v.e), v.e)

\* str(v) for a cell that is not NaN
str(v) == IF v.kind = "text" THEN v.text ELSE str_number(v)

\* the value of a text of digits
RECURSIVE TextToNat(_)
TextToNat(s) ==
  IF s = <<>> THEN 0
  ELSE 10 * TextToNat(SubSeq(s, 1, Len(s) - 1)) + DigitValue(s[Len(s)])

(***************************************************************************)
(* Regular expressions of the parser                                       *)
(***************************************************************************)
upper_char(c) ==
  IF \E i \in 1..26 : LowerCase[i] = c
  THEN UpperCase[CHOOSE i \in 1..26 : LowerCase[i] = c]
  ELSE c

upper(s) == [i \in 1..Len(s) |-> upper_char(s[i])]

\* the first index i of seq with seq[i] in hits, 0 when there is none
FirstOf(hits) == IF hits = {} THEN 0 ELSE Min(hits)

\* the end of the run of characters of class starting at i (i - 1: no run)
RECURSIVE RunEnd(_, _, _)
RunEnd(s, i, class) ==
  IF i <= Len(s) /\ s[i] \in class THEN RunEnd(s, i + 1, class) ELSE i - 1

\* \b before position i and after position j, s[i] and s[j] being word
\* characters
BoundaryBefore(s, i) == i = 1 \/ s[i - 1] \notin WordChars
BoundaryAfter(s, j) == j = Len(s) \/ s[j + 1] \notin WordChars

\* the literal lit, in lower case, matches s at i when case is ignored
LiteralAt(s, i, lit) ==
  /\ i + Len(lit) - 1 <= Len(s)
  /\ lower(SubSeq(s, i, i + Len(lit) - 1)) = lit

\* r'\b' + word + r'\b' matches s at i, case ignored (word in lower case)
WordAt(s, i, word) ==
  /\ LiteralAt(s, i, word)
  /\ BoundaryBefore(s, i)
  /\ BoundaryAfter(s, i + Len(word) - 1)

\* re.sub(pattern, '', s) for a pattern that matches s at i over
\* MatchLen(s, i) > 0 characters: leftmost matches, none overlapping
RECURSIVE RemoveSpans(_, _, _)
RemoveSpans(s, i, lens) ==
  IF i > Len(s) THEN <<>>
  ELSE IF lens[i] > 0 THEN RemoveSpans(s, i + lens[i], lens)
  ELSE <<s[i]>> \o RemoveSpans(s, i + 1, lens)

RemoveMatches(s, MatchLen(_, _)) ==
  RemoveSpans(s, 1, [i \in 1..Len(s) |-> MatchLen(s, i)])

(***************************************************************************)
(* NumberUnitParser                                                        *)
(***************************************************************************)
CURRENCY_SYMBOLS ==
  << <<U_euro, S("EUR")>>, <<S("$"), S("USD")>>, <<U_pound, S("GBP")>>,
     <<S("z") \o U_lstroke, S("PLN")>>, <<S("kr"), S("SEK")>>, <<U_rupee, S("INR")>>,
     <<U_yen, S("JPY")>>, <<U_yuan, S("CNY")>> >>

AREA_UNITS ==
  << <<S("m") \o U_sup2, S("m") \o U_sup2>>, <<S("m2"), S("m") \o U_sup2>>,
     <<S("sqm"), S("m") \o U_sup2>>, <<S("qm"), S("m") \o U_sup2>>,
     <<S("sqft"), S("sqft")>>, <<S("sf"), S("sqft")>>,
     <<S("ft") \o U_sup2, S("sqft")>>, <<S("ft2"), S("sqft")>>,
     <<S("square feet"), S("sqft")>>, <<S("square metres"), S("m") \o U_sup2>>,
     <<S("square meters"), S("m") \o U_sup2>> >>

APPROX_PREFIXES ==
  << S("approx."), S("ca."), S("~"), S("circa"), S("ungef") \o U_ae \o S("hr"),
     S("environ"), S("about"), S("roughly") >>

OPERATORS == << S(">="), S("<="), S(">"), S("<"), S("="), U_ge, U_le >>

\* dict.get(key, default) on a sequence of <<key, value>> pairs
Lookup(table, key, default) ==
  IF \E i \in 1..Len(table) : table[i][1] = key
  THEN table[CHOOSE i \in 1..Len(table) : table[i][1] = key][2]
  ELSE default

\* currency_symbol_pattern: ([euro $ pound yen rupee yuan])
CurrencySymbolChars ==
  {U_euro[1], "$", U_pound[1], U_yen[1], U_rupee[1], U_yuan[1]}
currency_symbol_search(s) ==
  FirstOf({i \in 1..Len(s) : s[i] \in CurrencySymbolChars})
CurrencySymbolLen(s, i) == IF s[i] \in CurrencySymbolChars THEN 1 ELSE 0

\* currency_code_pattern: \b(EUR|USD|...)\b, re.IGNORECASE
CurrencyCodes ==
  << S("eur"), S("usd"), S("gbp"), S("chf"), S("pln"), S("sek"), S("dkk"),
     S("nok"), S("czk"), S("huf"), S("cad"), S("aud"), S("inr"), S("jpy"),
     S("cny"), S("nzd") >>
CurrencyCodeLen(s, i) ==
  IF \E k \in 1..Len(CurrencyCodes) : WordAt(s, i, CurrencyCodes[k])
  THEN 3 ELSE 0
currency_code_search(s) ==
  FirstOf({i \in 1..Len(s) : CurrencyCodeLen(s, i) > 0})

\* percent_pattern: (\d+(?:[.,]\d+)?)\s*%
\* \s*% matches s after position p
PercentAfter(s, p) ==
  /\ RunEnd(s, p + 1, Whitespace) + 1 <= Len(s)
  /\ s[RunEnd(s, p + 1, Whitespace) + 1] = "%"
\* [.,]\d+ matches s after position j
DecimalsAfter(s, j) ==
  j + 2 <= Len(s) /\ s[j + 1] \in {".", ","} /\ s[j + 2] \in Digits
\* the end of group 1 of a match whose \d+ is s[i..j], 0 when there is none
PercentGroupEndFrom(s, j) ==
  IF DecimalsAfter(s, j) /\ PercentAfter(s, RunEnd(s, j + 2, Digits))
  THEN RunEnd(s, j + 2, Digits)
  ELSE IF PercentAfter(s, j) THEN j
  ELSE 0
\* the end of group 1 of a match starting at i, 0 when there is no match
PercentGroupEnd(s, i) ==
  IF i > Len(s) \/ s[i] \notin Digits THEN 0
  ELSE PercentGroupEndFrom(s, RunEnd(s, i, Digits))
percent_search(s) == FirstOf({i \in 1..Len(s) : PercentGroupEnd(s, i) > 0})

\* area_pattern:
\* (m[sup2]|m2|sqm|qm|sqft|sf|ft[sup2]|ft2|square\s*(?:feet|metres?|meters?)),
\* re.IGNORECASE
AreaLiterals ==
  << S("m") \o U_sup2, S("m2"), S("sqm"), S("qm"), S("sqft"), S("sf"),
     S("ft") \o U_sup2, S("ft2") >>
\* n, or n + 1 when an s follows the n characters at w
Plural(s, w, n) == IF LiteralAt(s, w + n, S("s")) THEN n + 1 ELSE n
\* the length of (?:feet|metres?|meters?) at w, 0 when it does not match
SquareUnitLen(s, w) ==
  IF LiteralAt(s, w, S("feet")) THEN 4
  ELSE IF LiteralAt(s, w, S("metre")) THEN Plural(s, w, 5)
  ELSE IF LiteralAt(s, w, S("meter")) THEN Plural(s, w, 5)
  ELSE 0
\* the length of square\s*(?:...) at i, the unit starting at w
SquareLenTo(i, w, unit_len) == IF unit_len = 0 THEN 0 ELSE w + unit_len - i
SquareLen(s, i) ==
  IF ~LiteralAt(s, i, S("square")) THEN 0
  ELSE SquareLenTo(i, RunEnd(s, i + 6, Whitespace) + 1,
                   SquareUnitLen(s, RunEnd(s, i + 6, Whitespace) + 1))
FirstLiteralLen(lits) == IF lits = {} THEN 0 ELSE Len(AreaLiterals[Min(lits)])
AreaLen(s, i) ==
  IF \E k \in 1..Len(AreaLiterals) : LiteralAt(s, i, AreaLiterals[k])
  THEN FirstLiteralLen({k \in 1..Len(AreaLiterals) : LiteralAt(s, i, AreaLiterals[k])})
  ELSE SquareLen(s, i)
area_search(s) == FirstOf({i \in 1..Len(s) : AreaLen(s, i) > 0})

NumberWithUnit(value, unit, original_text) ==
  [value |-> value, unit |-> unit, original_text |-> original_text]

\* text without its first len characters, stripped; text when len is 0
DropPrefix(text, len) == IF len = 0 THEN text ELSE strip(SubSeq(text, len + 1, Len(text)))
\* the length of the first element of prefixes that text starts with, 0
\* when there is none
PrefixLen(prefixes, hits) == IF hits = {} THEN 0 ELSE Len(prefixes[Min(hits)])
ApproxPrefixLen(text) ==
  PrefixLen(APPROX_PREFIXES,
            {i \in 1..Len(APPROX_PREFIXES) :
               startswith(lower(text), lower(APPROX_PREFIXES[i]))})
OperatorLen(text) ==
  PrefixLen(OPERATORS, {i \in 1..Len(OPERATORS) : startswith(text, OPERATORS[i])})
RemoveOperator(text) == DropPrefix(text, OperatorLen(text))
RemoveApproxPrefix(text) == DropPrefix(text, ApproxPrefixLen(text))

_clean_prefixes(text) == RemoveOperator(RemoveApproxPrefix(strip(text)))

\* the number m / 10^e of the digits whole before and frac after the dot
DecimalOf(whole, frac) ==
  IF Len(whole) + Len(frac) = 0 THEN NoneVal
  ELSE Float(TextToNat(whole \o frac), Len(frac))
SplitAt(num_str, d) ==
  IF d = 0 THEN DecimalOf(num_str, <<>>)
  ELSE DecimalOf(SubSeq(num_str, 1, d - 1), SubSeq(num_str, d + 1, Len(num_str)))

Count(s, c) == Cardinality({i \in 1..Len(s) : s[i] = c})
LastIndex(s, c) == Max({i \in 1..Len(s) : s[i] = c})
\* len(s.split(c)[-1])
LenOfLastPart(s, c) == Len(s) - LastIndex(s, c)

\* float(num_str) for a text of digits and dots: None on a ValueError
float_of(num_str) ==
  IF \/ Count(num_str, ".") > 1
     \/ \E i \in 1..Len(num_str) : num_str[i] \notin Digits \cup {"."}
  THEN NoneVal
  ELSE SplitAt(num_str, FirstOf({i \in 1..Len(num_str) : num_str[i] = "."}))

\* str.replace(old, new) for a single character old
RECURSIVE replace(_, _, _)
replace(s, old, new) ==
  IF s = <<>> THEN <<>>
  ELSE (IF Head(s) = old THEN new ELSE <<Head(s)>>) \o replace(Tail(s), old, new)

\* parentheses_negative: ^\s*\(([^)]+)\)\s*$
IsParenthesised(cleaned) ==
  /\ Len(cleaned) >= 3
  /\ cleaned[1] = "("
  /\ cleaned[Len(cleaned)] = ")"
  /\ \A i \in 2..(Len(cleaned) - 1) : cleaned[i] # ")"

HasMinus(cleaned) ==
  startswith(cleaned, S("-")) \/ startswith(cleaned, U_minus)

\* is_negative and cleaned after the tests of the sign
IsNegative(cleaned) == IsParenthesised(cleaned) \/ HasMinus(cleaned)
WithoutSign(cleaned) ==
  IF IsParenthesised(cleaned) THEN SubSeq(cleaned, 2, Len(cleaned) - 1)
  ELSE IF HasMinus(cleaned) THEN Tail(cleaned)
  ELSE cleaned

\* ''.join(re.findall(r"[\d.,']", cleaned))
NumericChars(cleaned) == SelectSeq(cleaned, LAMBDA c : c \in Digits \cup {".", ",", "'"})

\* ResolveSeparators with the comma always a grouping separator
ResolveSeparatorsCommaGroups(num_str) ==
  IF Count(num_str, ",") > 0 THEN replace(num_str, ",", <<>>)
  ELSE IF Count(num_str, ".") = 1 /\ LenOfLastPart(num_str, ".") = 3
  THEN replace(num_str, ".", <<>>)
  ELSE num_str

\* ResolveSeparators with a single comma always the decimal point
ResolveSeparatorsCommaDecimal(num_str) ==
  IF Count(num_str, ",") > 0 /\ Count(num_str, ".") > 0
  THEN IF LastIndex(num_str, ",") > LastIndex(num_str, ".")
       THEN replace(replace(num_str, ".", <<>>), ",", <<".">>)
       ELSE replace(num_str, ",", <<>>)
  ELSE IF Count(num_str, ",") = 1 THEN replace(num_str, ",", <<".">>)
  ELSE IF Count(num_str, ",") > 1 THEN replace(num_str, ",", <<>>)
  ELSE IF Count(num_str, ".") = 1 /\ LenOfLastPart(num_str, ".") = 3
  THEN replace(num_str, ".", <<>>)
  ELSE num_str

\* the text given to float(): the separators of num_str resolved
ResolveSeparators(num_str) ==
  IF Count(num_str, ",") > 0 /\ Count(num_str, ".") > 0
  THEN IF LastIndex(num_str, ",") > LastIndex(num_str, ".")
       THEN replace(replace(num_str, ".", <<>>), ",", <<".">>)
       ELSE replace(num_str, ",", <<>>)
  ELSE IF Count(num_str, ",") > 0
  THEN IF Count(num_str, ",") = 1 /\ LenOfLastPart(num_str, ",") = 3
       THEN replace(num_str, ",", <<>>)
       ELSE IF Count(num_str, ",") = 1 /\ LenOfLastPart(num_str, ",") <= 2
       THEN replace(num_str, ",", <<".">>)
       ELSE replace(num_str, ",", <<>>)
  ELSE IF Count(num_str, ".") = 1 /\ LenOfLastPart(num_str, ".") = 3
  THEN replace(num_str, ".", <<>>)
  ELSE num_str

\* -abs(result) if is_negative else result
Signed(result, is_negative) ==
  IF IsNone(result) THEN NoneVal
  ELSE IF is_negative THEN Float(-Abs(result.m), result.e)
  ELSE result

\* _parse_numeric_string from the extraction of the numeric part on
ParseNumericChars(numeric_chars, is_negative) ==
  IF numeric_chars = <<>> THEN NoneVal
  ELSE Signed(float_of(ResolveSeparators(replace(numeric_chars, "'", <<>>))),
              is_negative)

_parse_numeric_string(text) ==
  IF text = <<>> THEN NoneVal
  ELSE ParseNumericChars(NumericChars(WithoutSign(strip(text))),
                         IsNegative(strip(text)))

\* the text of the number of a percentage: group 1 of the match at i, the
\* text without its percent signs when there is no match (i = 0)
PercentNumber(cleaned, i) ==
  IF i > 0 THEN SubSeq(cleaned, i, PercentGroupEnd(cleaned, i))
  ELSE replace(cleaned, "%", <<>>)

_parse_percentage(text) ==
  NumberWithUnit(
    _parse_numeric_string(
      PercentNumber(_clean_prefixes(text), percent_search(_clean_prefixes(text)))),
    Txt(S("%")), text)

\* re.sub of the two currency patterns
WithoutSymbols(s) == RemoveMatches(s, CurrencySymbolLen)
WithoutCodes(s) == RemoveMatches(s, CurrencyCodeLen)

\* currency after the search for a symbol (at sym, 0: none)
SymbolCurrency(cleaned, sym) ==
  IF sym = 0 THEN NoneVal
  ELSE Txt(Lookup(CURRENCY_SYMBOLS, <<cleaned[sym]>>, <<cleaned[sym]>>))
\* currency after the search for an ISO code (at code, 0: none)
CodeCurrency(cleaned, code, currency) ==
  IF code = 0 THEN currency ELSE Txt(upper(SubSeq(cleaned, code, code + 2)))

\* _parse_currency after the symbols are removed
ParseCurrencyCode(cleaned, currency, text) ==
  NumberWithUnit(_parse_numeric_string(WithoutCodes(cleaned)),
                 CodeCurrency(cleaned, currency_code_search(cleaned), currency),
                 text)

\* _parse_currency after the prefixes are removed
ParseCurrencySymbol(cleaned, text) ==
  ParseCurrencyCode(WithoutSymbols(cleaned),
                    SymbolCurrency(cleaned, currency_symbol_search(cleaned)), text)

_parse_currency(text) == ParseCurrencySymbol(_clean_prefixes(text), text)

\* AreaUnit with every area unit normalised to the square metre
AreaUnitInSquareMetres(unit_raw) == Txt(S("m") \o U_sup2)

\* AREA_UNITS.get(unit_raw, unit_raw)
AreaUnit(unit_raw) == Txt(Lookup(AREA_UNITS, unit_raw, unit_raw))

\* unit after the search for an area unit (at i, 0: none)
MatchedAreaUnit(cleaned, i) ==
  IF i = 0 THEN NoneVal
  ELSE AreaUnit(strip(lower(SubSeq(cleaned, i, i + AreaLen(cleaned, i) - 1))))

\* _parse_area after the prefixes are removed
ParseAreaUnit(cleaned, text) ==
  NumberWithUnit(_parse_numeric_string(RemoveMatches(cleaned, AreaLen)),
                 MatchedAreaUnit(cleaned, area_search(cleaned)), text)

_parse_area(text) == ParseAreaUnit(_clean_prefixes(text), text)

\* {**time_units, **magnitude_units}, in the order of the dict
OTHER_UNITS ==
  << <<S("jahre"), S("Jahre")>>, <<S("year"), S("years")>>,
     <<S("years"), S("years")>>, <<S("yr"), S("years")>>,
     <<S("monate"), S("Monate")>>, <<S("month"), S("months")>>,
     <<S("months"), S("months")>>, <<S("mo"), S("months")>>,
     <<S("tage"), S("Tage")>>, <<S("day"), S("days")>>, <<S("days"), S("days")>>,
     <<S("wochen"), S("Wochen")>>, <<S("week"), S("weeks")>>,
     <<S("weeks"), S("weeks")>>,
     <<S("mio"), S("mio")>>, <<S("million"), S("mio")>>, <<S("mrd"), S("mrd")>>,
     <<S("billion"), S("billion")>>, <<S("tsd"), S("tsd")>>,
     <<S("thousand"), S("thousand")>>, <<S("k"), S("k")>> >>

\* re.search(r'\b' + key + r'\b', text)
word_search(text, key) == \E i \in 1..Len(text) : WordAt(text, i, key)

OtherUnit(k) == IF k = 0 THEN NoneVal ELSE Txt(OTHER_UNITS[k][2])

_extract_other_unit(text) ==
  OtherUnit(FirstOf({i \in 1..Len(OTHER_UNITS) :
                       word_search(lower(text), OTHER_UNITS[i][1])}))

\* re.sub(r'\b' + key + r'\b', '', s, flags=re.IGNORECASE)
remove_word(s, key) ==
  RemoveSpans(s, 1, [i \in 1..Len(s) |-> IF WordAt(s, i, lower(key)) THEN Len(key) ELSE 0])

_parse_with_unit(text, unit) ==
  NumberWithUnit(
    _parse_numeric_string(
      remove_word(remove_word(_clean_prefixes(text), lower(unit)), unit)),
    Txt(unit), text)

\* the texts parse takes for an empty cell
NULL_TEXTS ==
  { <<>>, S("-"), U_endash, S("n/a"), S("na"), S("null"), S("none"),
    S("00:00:00") }

\* parse from the detection of the kind of unit on
ParseCleaned(original, cleaned, other_unit) ==
  IF Contains(cleaned, S("%")) THEN _parse_percentage(original)
  ELSE IF currency_symbol_search(cleaned) > 0 \/ currency_code_search(cleaned) > 0
  THEN _parse_currency(original)
  ELSE IF area_search(cleaned) > 0 THEN _parse_area(original)
  ELSE IF Truthy(other_unit) THEN _parse_with_unit(original, other_unit.text)
  ELSE NumberWithUnit(_parse_numeric_string(cleaned), NoneVal, original)

\* ParseText with the cleaned text taken for the original
ParseTextCleaned(original) ==
  IF lower(original) \in NULL_TEXTS THEN NumberWithUnit(NoneVal, NoneVal, original)
  ELSE ParseCleaned(_clean_prefixes(original), _clean_prefixes(original),
                    _extract_other_unit(_clean_prefixes(original)))

\* parse of a text that is not empty
ParseText(original) ==
  IF lower(original) \in NULL_TEXTS THEN NumberWithUnit(NoneVal, NoneVal, original)
  ELSE ParseCleaned(original, _clean_prefixes(original),
                    _extract_other_unit(_clean_prefixes(original)))

parse(value, context_hint) ==
  IF IsNone(value) THEN NumberWithUnit(NoneVal, NoneVal, <<>>)
  ELSE IF IsNumber(value)
  THEN NumberWithUnit(Float(value.m, value.e), NoneVal, str(value))
  ELSE ParseText(strip(str(value)))

FIELD_TYPE_HINTS ==
  << <<"monthly_rent", "currency">>, <<"annual_rent", "currency">>,
     <<"market_rent", "currency">>, <<"rent_reduction", "currency">>,
     <<"rent_parking_monthly", "currency">>, <<"rent_other_income", "currency">>,
     <<"service_charge", "currency">>, <<"deposit", "currency">>,
     <<"area_sqm", "area">>, <<"area_sqft", "area">>,
     <<"occupancy_rate", "percentage">>, <<"escalation_rate", "percentage">>,
     <<"indexation_rate", "percentage">>, <<"vacancy_rate", "percentage">> >>

get_field_type_hint(canonical_field) == Lookup(FIELD_TYPE_HINTS, canonical_field, None)

\* the keyword lists of detect_language, in the order of lang_scores
LANGUAGE_WORDS ==
  << <<"en", <<>> >>,
     <<"de", << S("mieter"), S("fl") \o U_ae \o S("che"), S("miete"), S("vertrag"),
                S("einheit"), S("nutzung") >> >>,
     <<"fr", << S("locataire"), S("loyer"), S("bail"), S("surface"),
                S("unit") \o U_eacute >> >>,
     <<"it", << S("inquilino"), S("affitto"), S("locazione"), S("superficie") >> >>,
     <<"nl", << S("huurder"), S("huur"), S("oppervlakte"), S("eenheid") >> >>,
     <<"pl", << S("najemca"), S("czynsz"), S("powierzchnia"), S("umowa") >> >>,
     <<"sv", <<>> >> >>

\* lang_scores[l]: the pairs of a header and a keyword of language l with
\* the keyword in the header
LanguageScore(headers, words) ==
  Cardinality({p \in (1..Len(headers)) \X (1..Len(words)) :
                 Contains(lower(headers[p[1]]), words[p[2]])})

\* max(lang_scores, key=lang_scores.get): the first language of the best score
BestLanguage(scores, best) ==
  IF best = 0 THEN "en"
  ELSE LANGUAGE_WORDS[Min({l \in 1..Len(LANGUAGE_WORDS) : scores[l] = best})][1]

LanguageOf(scores) == BestLanguage(scores, Max({scores[l] : l \in DOMAIN scores}))

detect_language(headers) ==
  LanguageOf([l \in 1..Len(LANGUAGE_WORDS) |->
                LanguageScore(headers, LANGUAGE_WORDS[l][2])])

(***************************************************************************)
(* Workbooks: pd.ExcelFile.  A workbook is a sequence of sheets, a sheet   *)
(* has a name, a grid (rows of cells, all rows of one width) and the flag  *)
(* readable: pd.read_excel raises on a sheet that is not readable.         *)
(***************************************************************************)
sheet_names(excel_file) == [i \in 1..Len(excel_file) |-> excel_file[i].name]

SheetOf(excel_file, sheet_name) ==
  excel_file[CHOOSE i \in 1..Len(excel_file) : excel_file[i].name = sheet_name]

\* pd.read_excel(excel_file, sheet_name=..., header=None) raises
read_raises(excel_file, sheet_name) == ~SheetOf(excel_file, sheet_name).readable

\* pd.read_excel(excel_file, sheet_name=..., nrows=nrows, header=None)
FirstRows(grid, nrows) == SubSeq(grid, 1, Min({nrows, Len(grid)}))
read_excel_rows(excel_file, sheet_name, nrows) ==
  FirstRows(SheetOf(excel_file, sheet_name).grid, nrows)

\* str(cell), "nan" for an empty cell
cell_str(cell) == IF IsNone(cell) THEN S("nan") ELSE str(cell)
\* str(cell) if not pd.isna(cell) else ''
cell_text(cell) == IF IsNone(cell) THEN <<>> ELSE str(cell)

(***************************************************************************)
(* SheetSelector                                                           *)
(***************************************************************************)
SHEET_KEYWORDS ==
  << S("rent roll"), S("rentroll"), S("rent_roll"), S("mieterliste"), S("mieter"),
     S("mieter") \o U_ue \o S("bersicht"), S("tenancy"), S("tenant"), S("tenants"),
     U_eacute \o S("tat locatif"), S("locataire"), S("elenco locatari"),
     S("inquilini"), S("huurderslijst"), S("huurders"),
     S("lista najemc") \o U_oacute \o S("w"), S("najemcy"),
     S("hyresg") \o U_ae \o S("ster"), S("hyresf") \o U_oe \o S("rteckning"),
     S("stacking plan"), S("schedule") >>

SKIP_KEYWORDS ==
  << S("summary"), S("total"), S("totals"), S("zusammenfassung"),
     U_ue \o S("bersicht"), S("notes"), S("notizen"), S("hinweise"),
     S("instructions"), S("anleitung"), S("index"), S("inhaltsverzeichnis"),
     S("cover"), S("deckblatt"), S("template"), S("vorlage"), S("example"),
     S("beispiel") >>

\* any(kw in text for kw in keywords)
AnyKeywordIn(keywords, text) ==
  \E k \in 1..Len(keywords) : Contains(text, keywords[k])

should_skip_sheet(sheet_name) == AnyKeywordIn(SKIP_KEYWORDS, strip(lower(sheet_name)))

is_likely_rent_roll(sheet_name) == AnyKeywordIn(SHEET_KEYWORDS, strip(lower(sheet_name)))

\* nrows=30 of the reads of the selector, max_rows=30 of find_header_row
HEADER_SCAN_ROWS == 30

_count_header_matches(df) ==
  Cardinality({p \in (1..Min({HEADER_SCAN_ROWS, Len(df)}))
                       \X (IF df = <<>> THEN {} ELSE 1..Len(df[1])) :
                 map_header(cell_str(df[p[1]][p[2]])) # None})

\* the header matches of a sheet as the selector sees them, 0 when the
\* read raises (except: pass)
SheetMatches(excel_file, sheet_name) ==
  IF read_raises(excel_file, sheet_name) THEN 0
  ELSE _count_header_matches(read_excel_rows(excel_file, sheet_name, HEADER_SCAN_ROWS))

\* the score select_best_sheet gives a sheet
SheetScore(excel_file, sheet_name) ==
  (IF is_likely_rent_roll(sheet_name) THEN 10 ELSE 0)
    + SheetMatches(excel_file, sheet_name)

\* BestCandidate with the last candidate of the best score
BestCandidateLast(names, candidates, scores) ==
  names[Max({i \in candidates : \A j \in candidates : scores[j] <= scores[i]})]

\* the first candidate of the best score: score > best_score keeps the first
BestCandidate(names, candidates, scores) ==
  names[Min({i \in candidates : \A j \in candidates : scores[j] <= scores[i]})]

BestSheet(excel_file, names, candidates) ==
  IF Len(names) = 1 \/ candidates = {} THEN names[1]
  ELSE BestCandidate(names, candidates,
                     [i \in candidates |-> SheetScore(excel_file, names[i])])

NotSkipped(names) == {i \in 1..Len(names) : ~should_skip_sheet(names[i])}

select_best_sheet(excel_file) ==
  BestSheet(excel_file, sheet_names(excel_file), NotSkipped(sheet_names(excel_file)))

\* DataSheetsOr falling back to all the sheets of the workbook
DataSheetsOrAll(names, not_skipped, data_sheets) ==
  IF data_sheets # <<>> THEN data_sheets ELSE names

\* data_sheets if data_sheets else the sheets not skipped, else the first
DataSheetsOr(names, not_skipped, data_sheets) ==
  IF data_sheets # <<>> THEN data_sheets
  ELSE IF not_skipped # <<>> THEN not_skipped
  ELSE SubSeq(names, 1, 1)

\* WithHeaderCells with the threshold of find_header_row: a sheet needs 2
\* recognised cells to be chosen
WithTwoHeaderCells(excel_file, not_skipped) ==
  SelectSeq(not_skipped, LAMBDA n : SheetMatches(excel_file, n) >= 2)

WithHeaderCells(excel_file, not_skipped) ==
  SelectSeq(not_skipped, LAMBDA n : SheetMatches(excel_file, n) > 0)

DataSheets(excel_file, names, not_skipped) ==
  DataSheetsOr(names, not_skipped, WithHeaderCells(excel_file, not_skipped))

get_all_data_sheets(excel_file) ==
  DataSheets(excel_file, sheet_names(excel_file),
             SelectSeq(sheet_names(excel_file), LAMBDA n : ~should_skip_sheet(n)))

(***************************************************************************)
(* HeaderDetector                                                          *)
(***************************************************************************)
RowHeaders(row) == [c \in 1..Len(row) |-> cell_text(row[c])]

\* sum(1 for h in headers if self.mapper.map_header(h))
HeaderScore(headers) ==
  Cardinality({c \in 1..Len(headers) : map_header(headers[c]) # None})

NotFound == [found |-> FALSE, row |-> 0, headers |-> <<>>]
Found(df, row) == [found |-> TRUE, row |-> row, headers |-> RowHeaders(df[row + 1])]

\* BestRow with the last row of the best score
BestRowLast(df, scores, best_score) ==
  IF best_score >= 2
  THEN Found(df, Max({r \in DOMAIN scores : scores[r] = best_score}))
  ELSE NotFound

\* the first row of the best score: score > best_score keeps the first
BestRow(df, scores, best_score) ==
  IF best_score >= 2
  THEN Found(df, Min({r \in DOMAIN scores : scores[r] = best_score}))
  ELSE NotFound

BestOf(df, scores) ==
  IF DOMAIN scores = {} THEN NotFound
  ELSE BestRow(df, scores, Max({scores[r] : r \in DOMAIN scores}))

\* rows are numbered from 0, as df.iloc does: row r is df[r + 1]
find_header_row(df, max_rows) ==
  BestOf(df, [r \in 0..(Min({max_rows, Len(df)}) - 1) |->
                HeaderScore(RowHeaders(df[r + 1]))])

\* f"{prev_val} {curr_val}" or curr_val or prev_val
CombinedHeader(prev_val, curr_val) ==
  IF prev_val # <<>> /\ curr_val # <<>> THEN prev_val \o S(" ") \o curr_val
  ELSE IF curr_val # <<>> THEN curr_val
  ELSE prev_val

handle_multi_level_headers(df, header_row) ==
  IF header_row = 0 THEN RowHeaders(df[1])
  ELSE [i \in 1..Len(df[header_row + 1]) |->
          CombinedHeader(cell_text(df[header_row][i]),
                         cell_text(df[header_row + 1][i]))]

(***************************************************************************)
(* Records: dicts from keys to values                                      *)
(***************************************************************************)
EmptyRecord == [k \in {} |-> NoneVal]
Get(record, key) == IF key \in DOMAIN record THEN record[key] ELSE NoneVal
Put(record, key, v) ==
  [k \in DOMAIN record \cup {key} |-> IF k = key THEN v ELSE record[k]]
Del(record, key) == [k \in DOMAIN record \ {key} |-> record[k]]

(***************************************************************************)
(* DataExtractor                                                           *)
(***************************************************************************)
SUMMARY_KEYWORDS ==
  << S("total"), S("totals"), S("gesamt"), S("summe"), S("ergebnis"),
     S("total g") \o U_eacute \o S("n") \o U_eacute \o S("ral"), S("totale"),
     S("totaal"), S("razem"), S("totalt"), S("grand total"), S("subtotal"),
     S("zwischensumme"), S("vacant"), S("vacancy"), S("leerstand") >>

TEXT_FIELDS ==
  {"tenant_name", "unit_id", "status", "usage_type", "lease_type",
   "contract_id", "contractual_partner", "sap_object_number", "composite_unit_id",
   "mo_number", "business_unit", "business_unit_code", "bookkeeping_area"}

MEANINGFUL_FIELDS ==
  {"tenant_name", "unit_id", "monthly_rent_value", "annual_rent_value",
   "area_sqm_value", "area_sqft_value",
   "contractual_partner", "contract_id", "sap_object_number",
   "mo_number", "bookkeeping_area"}

_is_summary_row(first_cell) == AnyKeywordIn(SUMMARY_KEYWORDS, strip(lower(first_cell)))

\* record.get(f) not in [None, '', 0]
NotEmptyOrZero(v) ==
  CASE v.kind = "none" -> FALSE
    [] v.kind = "text" -> v.text # <<>>
    [] OTHER -> v.m # 0

_has_meaningful_data(record) ==
  \E f \in MEANINGFUL_FIELDS : NotEmptyOrZero(Get(record, f))

\* the value/unit/original fields of a parse that has a unit
PutTriad(record, canonical, number, unit, original_text) ==
  Put(Put(Put(record, canonical \o "_value", number),
          canonical \o "_unit", unit),
      canonical \o "_original", Txt(original_text))

\* the field of a parse that has no unit
PutBare(record, canonical, number, original_text) ==
  IF canonical \in TEXT_FIELDS THEN Put(record, canonical, Txt(strip(original_text)))
  ELSE IF ~IsNone(number) THEN Put(record, canonical, number)
  ELSE IF original_text # <<>> THEN Put(record, canonical, Txt(original_text))
  ELSE record

\* the storing of one parsed cell
StoreParsed(record, canonical, result) ==
  IF Truthy(result.unit)
  THEN PutTriad(record, canonical, result.value, result.unit, result.original_text)
  ELSE PutBare(record, canonical, result.value, result.original_text)

\* the body of the loop of _process_row for one column
ProcessCell(record, canonical, cell) ==
  StoreParsed(record, canonical, parse(cell, get_field_type_hint(canonical)))

_process_row(row, mapped_headers, row_idx) ==
  LET F[i \in 0..Len(mapped_headers)] ==
        IF i = 0 THEN EmptyRecord
        ELSE IF mapped_headers[i] = None \/ i > Len(row) THEN F[i - 1]
        ELSE ProcessCell(F[i - 1], mapped_headers[i], row[i])
  IN  F[Len(mapped_headers)]

\* row.isna().all() or all(str(cell).strip() == '' for the cells not NaN)
IsEmptyRow(row) ==
  \A c \in 1..Len(row) : IsNone(row[c]) \/ strip(str(row[c])) = <<>>

\* records.append(record) when the record has meaningful data
Appended(record, row_idx) ==
  IF _has_meaningful_data(record)
  THEN <<Put(record, "_source_row", Int_(row_idx + 1))>>
  ELSE <<>>

\* the records of row row_idx, the rows after it giving rest
RowThenRest(row, row_idx, mapped_headers, rest) ==
  IF IsEmptyRow(row) THEN rest
  ELSE Appended(_process_row(row, mapped_headers, row_idx), row_idx) \o rest

\* ExtractFrom with continue in the place of break: the summary row is left
\* out, the rows after it are read
RECURSIVE ExtractFromPastSummary(_, _, _)
ExtractFromPastSummary(df, row_idx, mapped_headers) ==
  IF row_idx >= Len(df) THEN <<>>
  ELSE IF _is_summary_row(cell_text(df[row_idx + 1][1]))
  THEN ExtractFromPastSummary(df, row_idx + 1, mapped_headers)
  ELSE RowThenRest(df[row_idx + 1], row_idx, mapped_headers,
                   ExtractFromPastSummary(df, row_idx + 1, mapped_headers))

\* the loop of extract_data from row row_idx on (rows numbered from 0)
RECURSIVE ExtractFrom(_, _, _)
ExtractFrom(df, row_idx, mapped_headers) ==
  IF row_idx >= Len(df) THEN <<>>
  ELSE IF _is_summary_row(cell_text(df[row_idx + 1][1])) THEN <<>>
  ELSE RowThenRest(df[row_idx + 1], row_idx, mapped_headers,
                   ExtractFrom(df, row_idx + 1, mapped_headers))

extract_data(df, header_row, raw_headers) ==
  ExtractFrom(df, header_row + 1,
              [i \in 1..Len(raw_headers) |-> map_header(raw_headers[i])])

(***************************************************************************)
(* RentRollExcelReader: identity resolution                                *)
(***************************************************************************)
\* re.sub(r'\D', '', s)
digits_of(s) == SelectSeq(s, LAMBDA c : c \in Digits)

\* re.sub(r'[\s\-]', '', str(text))
WithoutSeparators(text) == SelectSeq(text, LAMBDA c : c \notin Whitespace \cup {"-"})

\* cleaned.startswith(('01', '02', ..., '09'))
StartsWithTrunkPrefix(cleaned) ==
  Len(cleaned) >= 2 /\ cleaned[1] = "0" /\ cleaned[2] \in Digits \ {"0"}

PhoneShaped(cleaned) ==
  IF startswith(cleaned, S("+")) THEN Len(digits_of(cleaned)) >= 9
  ELSE IF StartsWithTrunkPrefix(cleaned) THEN Len(digits_of(cleaned)) >= 9
  ELSE FALSE

_is_phone_number(text) ==
  IF text = <<>> THEN FALSE ELSE PhoneShaped(WithoutSeparators(text))

\* the start of the run of zeros that ends s, 0 when s does not end in 0
ZerosStart(s) ==
  IF s = <<>> \/ s[Len(s)] # "0" THEN 0
  ELSE Min({i \in 1..Len(s) : \A j \in i..Len(s) : s[j] = "0"})

DropFrom(s, t) == IF t > 1 /\ s[t - 1] = "." THEN SubSeq(s, 1, t - 2) ELSE s

\* re.sub(r'\.0+$', '', s)
strip_trailing_zeros(s) == DropFrom(s, ZerosStart(s))

SignedText(negative, whole) ==
  (IF negative /\ whole > 0 THEN S("-") ELSE <<>>) \o NatToText(whole)

\* str(int(float(v))) for a number v
int_str(v) == SignedText(v.m < 0, Abs(v.m) \div Pow10(v.e))

\* the text the resolver takes a field for
num_or_text(v) == IF IsNumber(v) THEN int_str(v) ELSE strip(str(v))

\* IsTenantId without the test for a phone number
IsTenantIdOrPhone(num_str) ==
  num_str # <<>> /\ \A i \in 1..Len(num_str) : num_str[i] \in Digits

\* re.fullmatch(r'\d+', num_str) and not self._is_phone_number(num_str)
IsTenantId(num_str) ==
  /\ num_str # <<>>
  /\ \A i \in 1..Len(num_str) : num_str[i] \in Digits
  /\ ~_is_phone_number(num_str)

\* record['tenant_id'] = num_str; del record['tenant_name']
MoveToTenantId(record, num_str) ==
  IF IsTenantId(num_str)
  THEN Del(Put(record, "tenant_id", Txt(num_str)), "tenant_name")
  ELSE record

TenantDisambiguation(record, tenant_value) ==
  IF IsNone(tenant_value) \/ tenant_value = Txt(<<>>) THEN record
  ELSE MoveToTenantId(record, strip_trailing_zeros(num_or_text(tenant_value)))

PartnerFallback(record, partner) ==
  IF ~Truthy(Get(record, "tenant_name")) /\ ~Truthy(Get(record, "tenant_id"))
     /\ Truthy(partner)
  THEN Put(record, "tenant_name", partner)
  ELSE record

WithPartnerFallback(record) == PartnerFallback(record, Get(record, "contractual_partner"))

ResolveTenant(record) ==
  WithPartnerFallback(TenantDisambiguation(record, Get(record, "tenant_name")))

\* '-'.join(parts), parts the texts of the truthy elements of fields
RECURSIVE JoinParts(_)
JoinParts(fields) ==
  IF fields = <<>> THEN <<>>
  ELSE IF ~Truthy(Head(fields)) THEN JoinParts(Tail(fields))
  ELSE IF \E i \in 2..Len(fields) : Truthy(fields[i])
  THEN num_or_text(Head(fields)) \o S("-") \o JoinParts(Tail(fields))
  ELSE num_or_text(Head(fields))

\* record.get('business_unit') or record.get('business_unit_code')
FirstTruthy(a, b) == IF Truthy(a) THEN a ELSE b

CombinedUnit(record, fields) ==
  IF \E i \in 1..Len(fields) : Truthy(fields[i])
  THEN Put(record, "unit_id", Txt(JoinParts(fields)))
  ELSE record

\* FallbackUnit with the contract number before the SAP object number
FallbackUnitContractFirst(record, composite, sap_obj, contract) ==
  IF Truthy(composite) THEN Put(record, "unit_id", composite)
  ELSE IF Truthy(contract) THEN Put(record, "unit_id", contract)
  ELSE IF Truthy(sap_obj) THEN Put(record, "unit_id", sap_obj)
  ELSE CombinedUnit(record,
         << Get(record, "bookkeeping_area"),
            FirstTruthy(Get(record, "business_unit"), Get(record, "business_unit_code")),
            Get(record, "mo_number") >>)

FallbackUnit(record, composite, sap_obj, contract) ==
  IF Truthy(composite) THEN Put(record, "unit_id", composite)
  ELSE IF Truthy(sap_obj) THEN Put(record, "unit_id", sap_obj)
  ELSE IF Truthy(contract) THEN Put(record, "unit_id", contract)
  ELSE CombinedUnit(record,
         << Get(record, "bookkeeping_area"),
            FirstTruthy(Get(record, "business_unit"), Get(record, "business_unit_code")),
            Get(record, "mo_number") >>)

ResolveUnit(record) ==
  IF Truthy(Get(record, "unit_id")) THEN record
  ELSE FallbackUnit(record, Get(record, "composite_unit_id"),
                    Get(record, "sap_object_number"), Get(record, "contract_id"))

ResolveAsset(record) ==
  IF Truthy(Get(record, "sap_object_number")) /\ ~Truthy(Get(record, "asset_id"))
  THEN Put(record, "asset_id", Get(record, "sap_object_number"))
  ELSE record

\* the body of the loop of _resolve_tenant_and_unit
ResolveRecord(record) == ResolveAsset(ResolveUnit(ResolveTenant(record)))

_resolve_tenant_and_unit(records) ==
  [i \in 1..Len(records) |-> ResolveRecord(records[i])]

(***************************************************************************)
(* DataValidator                                                           *)
(***************************************************************************)
ValidationError(severity, row_index, field, value) ==
  [severity |-> severity, row_index |-> row_index, field |-> field, value |-> value]

MAGNITUDE_FIELDS ==
  << "monthly_rent_value", "annual_rent_value", "area_sqm_value", "area_sqft_value" >>

\* the warning on the identifiers
MissingIdentifiers(idx, record) ==
  IF /\ ~Truthy(Get(record, "tenant_name"))
     /\ ~Truthy(Get(record, "tenant_id"))
     /\ ~Truthy(Get(record, "unit_id"))
     /\ ~Truthy(Get(record, "contract_id"))
     /\ ~Truthy(Get(record, "asset_id"))
  THEN <<ValidationError("warning", idx, "tenant/unit identifiers", NoneVal)>>
  ELSE <<>>

\* NegativeRent with <= in the place of <
NegativeOrZeroRent(idx, rent_value) ==
  IF ~IsNone(rent_value) /\ rent_value.m <= 0
  THEN <<ValidationError("warning", idx, "monthly_rent_value", rent_value)>>
  ELSE <<>>

\* the warning on a negative rent
NegativeRent(idx, rent_value) ==
  IF ~IsNone(rent_value) /\ LessThanZero(rent_value)
  THEN <<ValidationError("warning", idx, "monthly_rent_value", rent_value)>>
  ELSE <<>>

\* the warning on a very large value
LargeValue(idx, field, val) ==
  IF Truthy(val) /\ GreaterThan1e9(val)
  THEN <<ValidationError("warning", idx, field, val)>>
  ELSE <<>>

RECURSIVE LargeValues(_, _, _)
LargeValues(idx, record, fields) ==
  IF fields = <<>> THEN <<>>
  ELSE LargeValue(idx, Head(fields), Get(record, Head(fields)))
         \o LargeValues(idx, record, Tail(fields))

\* the issues of record idx, in the order validate appends them
ValidateRecord(idx, record) ==
  MissingIdentifiers(idx, record)
    \o NegativeRent(idx, Get(record, "monthly_rent_value"))
    \o LargeValues(idx, record, MAGNITUDE_FIELDS)

\* row_index counts the records from 0
RECURSIVE ValidateFrom(_, _)
ValidateFrom(records, idx) ==
  IF idx >= Len(records) THEN <<>>
  ELSE ValidateRecord(idx, records[idx + 1]) \o ValidateFrom(records, idx + 1)

validate(records) == ValidateFrom(records, 0)

(***************************************************************************)
(* The grids, sheets and workbooks the model reads                         *)
(***************************************************************************)
NaN == NoneVal
T(ascii) == Txt(S(ascii))

\* a header in row 0, a blank row, a total row and a data row after it
GridRentRoll ==
  << <<T("Mieter"), T("Einheit"), T("Miete")>>,
     <<T("Acme GmbH"), T("A1"), Txt(S("1.000 ") \o U_euro)>>,
     <<NaN, NaN, NaN>>,
     <<T("Beta AG"), T("A2"), Txt(S("750,50 ") \o U_euro)>>,
     <<T("Gesamt"), NaN, Txt(S("1.750,50 ") \o U_euro)>>,
     <<T("Late Ltd"), T("B7"), Txt(S("500 ") \o U_euro)>> >>

\* a title row above the header, numeric cells
GridTitled ==
  << <<T("Rent Roll 2024"), NaN, NaN>>,
     <<T("Tenant"), T("Unit No"), T("Rent")>>,
     <<Int_(62210), T("U1"), Int_(1200)>>,
     <<T("Total"), NaN, Int_(1200)>> >>

\* one recognised cell, no row with two
GridOneCell ==
  << <<T("Notes on Mieter"), T("x"), NaN>>,
     <<T("Acme GmbH"), T("y"), NaN>> >>

\* no recognised cell
GridNoCells == << <<T("Lorem"), T("ipsum"), NaN>> >>

Sheet(name, grid, readable) == [name |-> S(name), grid |-> grid, readable |-> readable]

SHEETS ==
  { Sheet("Mieterliste", GridRentRoll, TRUE),
    Sheet("Mieterliste", GridNoCells, TRUE),
    Sheet("Summary", GridRentRoll, TRUE),
    Sheet("Summary", GridNoCells, TRUE),
    Sheet("Data", GridOneCell, TRUE),
    Sheet("Info", GridNoCells, TRUE),
    Sheet("Tenants", GridTitled, TRUE),
    Sheet("Broken", GridRentRoll, FALSE) }

MaxSheets == 3

\* the sequences of n sheets of SHEETS
RECURSIVE SheetSeqs(_)
SheetSeqs(n) ==
  IF n = 0 THEN {<<>>}
  ELSE {Append(w, s) : w \in SheetSeqs(n - 1), s \in SHEETS}

RECURSIVE SheetSeqsUpTo(_)
SheetSeqsUpTo(n) ==
  IF n = 1 THEN SheetSeqs(1) ELSE SheetSeqs(n) \cup SheetSeqsUpTo(n - 1)

DistinctNames(w) ==
  \A i, j \in 1..Len(w) : i # j => w[i].name # w[j].name

\* the workbooks of 1..MaxSheets sheets, the names of the sheets distinct
WORKBOOKS == {w \in SheetSeqsUpTo(MaxSheets) : DistinctNames(w)}

FILE_NAME == S("upload.xlsx")

(***************************************************************************)
(* State                                                                   *)
(***************************************************************************)
VARIABLES
  workbook,            \* the uploaded file
  process_all_sheets,  \* the flag of the request
  pc,                  \* the position of read_excel and of its caller
  excel_file,          \* pd.ExcelFile(filepath), NotOpened before
  sheets_to_process,
  position,            \* the index of the loop over sheets_to_process
  warnings,
  all_records,
  sheets_processed,
  clock,               \* datetime.now()
  executed,            \* the steps of the reader that have run
  result,              \* the ExtractionResult returned
  validation_errors,   \* response['validation_errors']
  value,               \* the argument of NumberUnitParser.parse
  parsed,              \* its result
  raw_header,          \* the argument of HeaderMapper.map_header
  mapped,              \* its result
  appended_defaults,   \* the aliases appended to the lists of DEFAULT_SYNONYMS
  mappers,             \* the HeaderMapper instances constructed, in order
  frames,              \* per request thread: the call of read_excel it runs
  accumulators,        \* the lists all_records and warnings of the calls
  scanned_df,          \* the argument df of HeaderDetector.find_header_row
  header_found,        \* its result
  merged_headers,      \* raw_headers after handle_multi_level_headers
  given_records,       \* the records extract_data gave
  resolved_records,    \* the list _resolve_tenant_and_unit works on, in place
  passes               \* the calls of _resolve_tenant_and_unit on the list

readerVars == <<workbook, process_all_sheets, pc, excel_file, sheets_to_process,
                position, warnings, all_records, sheets_processed, clock,
                executed, result, validation_errors>>
parserVars == <<value, parsed>>
mapperVars == <<raw_header, mapped>>
tableVars == <<appended_defaults, mappers>>
serverVars == <<frames, accumulators>>
detectorVars == <<scanned_df, header_found, merged_headers>>
resolverVars == <<given_records, resolved_records, passes>>
vars == <<readerVars, parserVars, mapperVars, tableVars, serverVars, detectorVars,
          resolverVars>>

NotOpened == <<>>
NoResult == [success |-> FALSE, data |-> <<>>, message |-> "none",
             warnings |-> <<>>, detected_language |-> "none",
             sheets_processed |-> 0, total_rows_extracted |-> 0]
NotCalled == [value |-> NoneVal, unit |-> NoneVal, original_text |-> S("not called")]
NotMapped == "not mapped"

ReaderStart(w, flag) ==
  /\ workbook = w
  /\ process_all_sheets = flag
  /\ pc = "open"
  /\ excel_file = NotOpened
  /\ sheets_to_process = <<>>
  /\ position = 1
  /\ warnings = <<>>
  /\ all_records = <<>>
  /\ sheets_processed = 0
  /\ clock = 0
  /\ executed = {}
  /\ result = NoResult
  /\ validation_errors = <<>>

\* no file is uploaded
ReaderIdle ==
  /\ workbook = <<>>
  /\ process_all_sheets = TRUE
  /\ pc = "idle"
  /\ excel_file = NotOpened
  /\ sheets_to_process = <<>>
  /\ position = 1
  /\ warnings = <<>>
  /\ all_records = <<>>
  /\ sheets_processed = 0
  /\ clock = 0
  /\ executed = {}
  /\ result = NoResult
  /\ validation_errors = <<>>
ParserIdle == value = NoneVal /\ parsed = NotCalled
MapperIdle == raw_header = <<>> /\ mapped = NotMapped

NotSearched == [found |-> FALSE, row |-> -1, headers |-> <<>>]

\* find_header_row is not called
NotMerged == <<S("not merged")>>

DetectorIdle ==
  scanned_df = <<>> /\ header_found = NotSearched /\ merged_headers = NotMerged

\* _resolve_tenant_and_unit is not called
ResolverIdle == given_records = <<>> /\ resolved_records = <<>> /\ passes = 0

\* the request threads of the server
THREADS == { 1, 2 }

\* all_records = [], warnings = [], sheets_processed = 0
NewAccumulator == [all_records |-> <<>>, warnings |-> <<>>, sheets_processed |-> 0]

\* no request is in the server
ServerIdle ==
  /\ frames = [t \in THREADS |-> [pc |-> "idle"]]
  /\ accumulators = [t \in THREADS |-> NewAccumulator]

\* the module is loaded and no HeaderMapper takes a synonyms file
TablesIdle ==
  /\ appended_defaults = [i \in 1..Len(DEFAULT_SYNONYMS) |-> <<>>]
  /\ mappers = <<>>

(***************************************************************************)
(* RentRollExcelReader.read_excel, step by step                            *)
(***************************************************************************)
Warning(sheet_name, what) == [sheet |-> sheet_name, what |-> what]

ExtractionResult(success, data, message, warns, lang, n_sheets, n_rows) ==
  [success |-> success, data |-> data, message |-> message, warnings |-> warns,
   detected_language |-> lang, sheets_processed |-> n_sheets,
   total_rows_extracted |-> n_rows]

\* pd.ExcelFile(filepath) succeeds
OpenWorkbook ==
  /\ pc = "open"
  /\ excel_file' = workbook
  /\ pc' = "select"
  /\ UNCHANGED <<workbook, process_all_sheets, sheets_to_process, position,
                 warnings, all_records, sheets_processed, clock, executed,
                 result, validation_errors, parserVars, mapperVars, tableVars, serverVars, detectorVars, resolverVars>>

\* OpenFails with the failure surfacing after the selection of the sheets
OpenFailsAfterSelection ==
  /\ pc = "open"
  /\ result' = ExtractionResult(FALSE, <<>>, "failed to open",
                                <<Warning(<<>>, "open error")>>, "none", 0, 0)
  /\ executed' = executed \cup {"select"}
  /\ pc' = "done"
  /\ UNCHANGED <<workbook, process_all_sheets, excel_file, sheets_to_process,
                 position, warnings, all_records, sheets_processed, clock,
                 validation_errors, parserVars, mapperVars, tableVars, serverVars, detectorVars, resolverVars>>

\* pd.ExcelFile(filepath) raises
OpenFails ==
  /\ pc = "open"
  /\ result' = ExtractionResult(FALSE, <<>>, "failed to open",
                                <<Warning(<<>>, "open error")>>, "none", 0, 0)
  /\ pc' = "done"
  /\ UNCHANGED <<workbook, process_all_sheets, excel_file, sheets_to_process,
                 position, warnings, all_records, sheets_processed, clock,
                 executed, validation_errors, parserVars, mapperVars, tableVars, serverVars, detectorVars, resolverVars>>

\* the sheets read_excel chooses
ChosenSheets(file, all_sheets) ==
  IF all_sheets THEN get_all_data_sheets(file) ELSE <<select_best_sheet(file)>>

\* the step after the choice of the sheets
Chosen(chosen) ==
  /\ sheets_to_process' = chosen
  /\ IF chosen = <<>>
     THEN /\ result' = ExtractionResult(FALSE, <<>>, "no suitable sheets",
                          <<Warning(<<>>, "no sheets")>>, "none", 0, 0)
          /\ pc' = "done"
     ELSE /\ result' = result
          /\ pc' = "sheets"

SelectSheets ==
  /\ pc = "select"
  /\ Chosen(ChosenSheets(excel_file, process_all_sheets))
  /\ executed' = executed \cup {"select"}
  /\ UNCHANGED <<workbook, process_all_sheets, excel_file, position, warnings,
                 all_records, sheets_processed, clock, validation_errors,
                 parserVars, mapperVars, tableVars, serverVars, detectorVars, resolverVars>>

\* Stamped without the name of the sheet
StampedWithoutSheet(records, sheet_name, timestamp) ==
  [i \in 1..Len(records) |->
     Put(Put(records[i], "_source_file", Txt(FILE_NAME)),
         "_extraction_timestamp", Int_(timestamp))]

\* record['_source_file'], record['_source_sheet'], record['_extraction_timestamp']
Stamped(records, sheet_name, timestamp) ==
  [i \in 1..Len(records) |->
     Put(Put(Put(records[i], "_source_file", Txt(FILE_NAME)),
             "_source_sheet", Txt(sheet_name)),
         "_extraction_timestamp", Int_(timestamp))]

\* raw_headers after the handling of multi-level headers
RawHeaders(df, header_row, headers) ==
  IF header_row > 0 THEN handle_multi_level_headers(df, header_row) ELSE headers

\* the records of one sheet with their source identification
SheetRecords(df, sheet_name, header_row, headers, timestamp) ==
  Stamped(extract_data(df, header_row, RawHeaders(df, header_row, headers)),
          sheet_name, timestamp)

\* AfterHeaderSearch with no warning on a sheet that has no header row
AfterHeaderSearchSilent(df, sheet_name, header_result) ==
  IF ~header_result.found
  THEN /\ executed' = executed \cup {"header"}
       /\ UNCHANGED <<warnings, all_records, sheets_processed, clock>>
  ELSE /\ all_records' =
            all_records \o SheetRecords(df, sheet_name, header_result.row,
                                        header_result.headers, clock)
       /\ sheets_processed' = sheets_processed + 1
       /\ clock' = clock + 1
       /\ executed' = executed \cup {"header", "extract"}
       /\ UNCHANGED warnings

\* the body of the loop after find_header_row
AfterHeaderSearch(df, sheet_name, header_result) ==
  IF ~header_result.found
  THEN /\ warnings' = Append(warnings, Warning(sheet_name, "no header row"))
       /\ executed' = executed \cup {"header"}
       /\ UNCHANGED <<all_records, sheets_processed, clock>>
  ELSE /\ all_records' =
            all_records \o SheetRecords(df, sheet_name, header_result.row,
                                        header_result.headers, clock)
       /\ sheets_processed' = sheets_processed + 1
       /\ clock' = clock + 1
       /\ executed' = executed \cup {"header", "extract"}
       /\ UNCHANGED warnings

\* the body of the loop after pd.read_excel
AfterRead(df, sheet_name) ==
  AfterHeaderSearch(df, sheet_name, find_header_row(df, HEADER_SCAN_ROWS))

\* the body of the loop over sheets_to_process
SheetStep(sheet_name) ==
  IF read_raises(excel_file, sheet_name)
  THEN /\ warnings' = Append(warnings, Warning(sheet_name, "error"))
       /\ UNCHANGED <<all_records, sheets_processed, clock, executed>>
  ELSE AfterRead(SheetOf(excel_file, sheet_name).grid, sheet_name)

\* one iteration of the loop over sheets_to_process
ProcessSheet ==
  /\ pc = "sheets"
  /\ SheetStep(sheets_to_process[position])
  /\ position' = position + 1
  /\ pc' = IF position = Len(sheets_to_process) THEN "finish" ELSE "sheets"
  /\ UNCHANGED <<workbook, process_all_sheets, excel_file, sheets_to_process,
                 result, validation_errors, parserVars, mapperVars, tableVars, serverVars, detectorVars, resolverVars>>

\* header_result[1] if header_result, for the language detection
FoundHeaders(header_result) ==
  IF header_result.found THEN header_result.headers ELSE <<>>

\* the headers detect_language takes from one sheet: none when the read raises
SheetHeaders(file, sheet_name) ==
  IF read_raises(file, sheet_name) THEN <<>>
  ELSE FoundHeaders(find_header_row(
                      read_excel_rows(file, sheet_name, HEADER_SCAN_ROWS),
                      HEADER_SCAN_ROWS))

\* all_headers: the headers of sheets_to_process[:3]
RECURSIVE LanguageHeaders(_, _)
LanguageHeaders(file, sheets) ==
  IF sheets = <<>> THEN <<>>
  ELSE SheetHeaders(file, Head(sheets)) \o LanguageHeaders(file, Tail(sheets))

\* Extracted with success for every read that processed a sheet
ExtractedWhenProcessed(records, warns, lang, n_sheets) ==
  ExtractionResult(n_sheets > 0, records, "extracted", warns, lang, n_sheets,
                   Len(records))

\* the result of a read that went through the loop
Extracted(records, warns, lang, n_sheets) ==
  ExtractionResult(Len(records) > 0, records, "extracted", warns, lang, n_sheets,
                   Len(records))

\* after the loop: language detection, identity resolution, the result
Finish ==
  /\ pc = "finish"
  /\ all_records' = _resolve_tenant_and_unit(all_records)
  /\ result' = Extracted(all_records', warnings,
                 detect_language(
                   LanguageHeaders(excel_file,
                     SubSeq(sheets_to_process, 1, Min({3, Len(sheets_to_process)})))),
                 sheets_processed)
  /\ executed' = executed \cup {"resolve"}
  /\ pc' = "done"
  /\ UNCHANGED <<workbook, process_all_sheets, excel_file, sheets_to_process,
                 position, warnings, sheets_processed, clock, validation_errors,
                 parserVars, mapperVars, tableVars, serverVars, detectorVars, resolverVars>>

\* app.py, extract_excel: the validation of a successful result
Validate ==
  /\ pc = "done"
  /\ \E do_validate \in BOOLEAN :
       IF do_validate /\ result.success
       THEN /\ validation_errors' = validate(result.data)
            /\ executed' = executed \cup {"validate"}
       ELSE /\ validation_errors' = <<>>
            /\ executed' = executed
  /\ pc' = "responded"
  /\ UNCHANGED <<workbook, process_all_sheets, excel_file, sheets_to_process,
                 position, warnings, all_records, sheets_processed, clock,
                 result, parserVars, mapperVars, tableVars, serverVars, detectorVars, resolverVars>>

ReaderNext ==
  \/ OpenWorkbook
  \/ OpenFails
  \/ SelectSheets
  \/ ProcessSheet
  \/ Finish
  \/ Validate

(***************************************************************************)
(* The reader on workbooks of up to MaxSheets sheets                       *)
(***************************************************************************)
Init ==
  /\ \E w \in WORKBOOKS, flag \in BOOLEAN : ReaderStart(w, flag)
  /\ ParserIdle
  /\ MapperIdle
  /\ TablesIdle
  /\ ServerIdle
  /\ DetectorIdle
  /\ ResolverIdle

Next == ReaderNext

Spec == Init /\ [][Next]_vars

(***************************************************************************)
(* The reader on one sheet of a tenant, a partner, a unit and a rent       *)
(* column, the last row drawn from the cells below                         *)
(***************************************************************************)
TENANT_CELLS ==
  { NaN, T("Acme GmbH"), T("62210"), Int_(62210), Float(622100, 1), T("62210.0"),
    T("+49 170 1234"), T("0170123456"), T("01701234"), T("0012345678"),
    T("123456789"), T("Crossfit GmbH"), T("USD Holdings") }

PARTNER_CELLS == { NaN, T("Beta AG") }

UNIT_CELLS == { NaN, T("A1") }

RENT_CELLS ==
  { NaN, Int_(-100), Int_(0), T("-100"),
    Txt(S("-100 ") \o U_euro), Txt(S("0 ") \o U_euro), Txt(S("1.000 ") \o U_euro),
    Txt(S("1,000,000,000 ") \o U_euro), Txt(S("2,000,000,000 ") \o U_euro) }

GridRows(tenant, partner, unit, rent) ==
  << <<T("Mieter"), T("Vertragspartner"), T("Einheit"), T("Miete")>>,
     <<T("Acme GmbH"), NaN, T("A0"), Txt(S("1.000 ") \o U_euro)>>,
     <<tenant, partner, unit, rent>> >>

\* a sheet with two columns of rents
RENT_PAIR_CELLS == { NaN, Int_(1000), Txt(S("1.000 ") \o U_euro) }

GridRentPair(rent, net_rent) ==
  << <<T("Mieter"), T("Miete"), T("Nettomiete")>>,
     <<T("Acme GmbH"), Txt(S("1.000 ") \o U_euro), Txt(S("900 ") \o U_euro)>>,
     <<T("Beta AG"), rent, net_rent>> >>

RENT_PAIR_WORKBOOKS ==
  { <<Sheet("Mieterliste", GridRentPair(rent, net_rent), TRUE)>> :
      rent \in RENT_PAIR_CELLS, net_rent \in RENT_PAIR_CELLS }

ROW_WORKBOOKS ==
  { <<Sheet("Mieterliste", GridRows(tenant, partner, unit, rent), TRUE)>> :
      tenant \in TENANT_CELLS, partner \in PARTNER_CELLS, unit \in UNIT_CELLS,
      rent \in RENT_CELLS }
    \cup RENT_PAIR_WORKBOOKS

InitRows ==
  /\ \E w \in ROW_WORKBOOKS : ReaderStart(w, TRUE)
  /\ ParserIdle
  /\ MapperIdle
  /\ TablesIdle
  /\ ServerIdle
  /\ DetectorIdle
  /\ ResolverIdle

NextRows == ReaderNext

SpecRows == InitRows /\ [][NextRows]_vars

(***************************************************************************)
(* HeaderMapper.map_header on the aliases of the table and on headers as   *)
(* sheets write them                                                       *)
(***************************************************************************)
ALIASES ==
  UNION { { synonyms[i].syns[j] : j \in 1..Len(synonyms[i].syns) } :
          i \in 1..Len(synonyms) }

RAW_HEADERS ==
  { <<>>, S("nan"), S("Lorem"), S("Mieter"), S("MIETE (EUR)"), S("Unit No."),
    S("Rent Roll 2024 Tenant"), S("  Tenant_Name "), S("Notes on Mieter") }

HEADERS == ALIASES \cup RAW_HEADERS

InitMapper ==
  /\ ReaderIdle
  /\ ParserIdle
  /\ TablesIdle
  /\ ServerIdle
  /\ DetectorIdle
  /\ ResolverIdle
  /\ raw_header \in HEADERS
  /\ mapped = NotMapped

MapHeader ==
  /\ mapped = NotMapped
  /\ mapped' = map_header(raw_header)
  /\ UNCHANGED <<raw_header, readerVars, parserVars, tableVars, serverVars, detectorVars, resolverVars>>

NextMapper == MapHeader

SpecMapper == InitMapper /\ [][NextMapper]_vars

(***************************************************************************)
(* NumberUnitParser.parse on numbers written with a currency or an area    *)
(* token, and on numeric cells                                             *)
(***************************************************************************)
\* the digit strings and the numbers they write
NUMBERS ==
  { [text |-> S("100"), number |-> Float(100, 0)],
    [text |-> S("2"), number |-> Float(2, 0)],
    [text |-> S("500"), number |-> Float(500, 0)],
    [text |-> S("7,200"), number |-> Float(7200, 0)],
    [text |-> S("1.234,56"), number |-> Float(123456, 2)] }

\* ISO_CURRENCIES
ISO_CURRENCIES ==
  { S("EUR"), S("USD"), S("GBP"), S("CHF"), S("PLN"), S("SEK"), S("DKK"),
    S("NOK"), S("CZK"), S("HUF"), S("INR"), S("JPY"), S("CNY"), S("CAD"),
    S("AUD"), S("NZD") }

\* the keys of CURRENCY_SYMBOLS
CurrencySymbols == { CURRENCY_SYMBOLS[i][1] : i \in 1..Len(CURRENCY_SYMBOLS) }

CURRENCY_TOKENS == CurrencySymbols \cup ISO_CURRENCIES

SQFT_TOKENS == { S("sqft"), S("sf"), S("ft") \o U_sup2, S("ft2"), S("square feet") }
SQM_TOKENS == { S("m") \o U_sup2, S("m2"), S("sqm"), S("qm") }
AREA_TOKENS == SQFT_TOKENS \cup SQM_TOKENS

SEPARATORS == { <<>>, S(" ") }

\* a number and a token, in both orders
NumberToken(n, sep, token) == n.text \o sep \o token
TokenNumber(n, sep, token) == token \o sep \o n.text

CURRENCY_TEXTS ==
  { NumberToken(n, sep, token) : n \in NUMBERS, sep \in SEPARATORS,
                                 token \in CURRENCY_TOKENS }
  \cup { TokenNumber(n, sep, token) : n \in NUMBERS, sep \in SEPARATORS,
                                      token \in CURRENCY_TOKENS }

AREA_TEXTS ==
  { NumberToken(n, sep, token) : n \in NUMBERS, sep \in SEPARATORS,
                                 token \in AREA_TOKENS }
  \cup { NumberToken(n, sep, upper(token)) : n \in NUMBERS, sep \in SEPARATORS,
                                             token \in AREA_TOKENS }
  \cup { S("approx. ") \o NumberToken(n, S(" "), token) :
           n \in NUMBERS, token \in AREA_TOKENS }

\* a price, a share or a term written in front of an area
PER_AREA_TEXTS ==
  { S("$") \o n.text \o S(" per ") \o token : n \in NUMBERS, token \in AREA_TOKENS }
  \cup { n.text \o S(" EUR/") \o token : n \in NUMBERS, token \in AREA_TOKENS }
  \cup { n.text \o S("% of 900 ") \o token : n \in NUMBERS, token \in AREA_TOKENS }
  \cup { n.text \o S(" years, 900 ") \o token : n \in NUMBERS, token \in AREA_TOKENS }

NUMERIC_CELLS == { NaN, Int_(0), Int_(-100), Int_(62210), Float(622100, 1),
                   Float(-123456, 2) }

\* digit strings of 2, 3 and 4 groups of digits, each separator a comma, a
\* dot or an apostrophe
GROUP_SEPARATORS == { S(","), S("."), S("'") }

DIGIT_STRINGS ==
  { a \o s \o b : a \in { S("1"), S("12"), S("99") }, s \in GROUP_SEPARATORS,
                  b \in { S("5"), S("56"), S("234"), S("2345") } }
  \cup { S("1") \o s \o b \o t \o c :
           s \in GROUP_SEPARATORS, b \in { S("234"), S("23") },
           t \in GROUP_SEPARATORS, c \in { S("567"), S("56"), S("5") } }
  \cup { S("1") \o s \o S("234") \o t \o S("567") \o u \o S("89") :
           s \in GROUP_SEPARATORS, t \in GROUP_SEPARATORS, u \in GROUP_SEPARATORS }

\* a number with an approximation marker or an operator in front, a unit
\* behind, and blanks around
MARKERS == { <<>>, S(">= "), S("approx. "), S("~"), S("< ") }
UNIT_SUFFIXES == { <<>>, S("%"), S(" ") \o U_euro, S(" sqm"), S(" Jahre") }
PADDINGS == { <<>>, S(" ") }

MARKED_TEXTS ==
  { pad \o marker \o S("90") \o unit \o pad :
      pad \in PADDINGS, marker \in MARKERS, unit \in UNIT_SUFFIXES }

\* a number without sign, with a leading minus and in parentheses, with the
\* unit of each mode of parse behind it
SIGN_UNITS == { <<>>, S(" ") \o U_euro, S("%"), S(" sqm"), S(" Jahre") }

Unsigned(unit) == S("500") \o unit
WithMinus(unit) == S("-500") \o unit
InParentheses(unit) == S("(500)") \o unit

SIGNED_TEXTS ==
  { Unsigned(unit) : unit \in SIGN_UNITS }
    \cup { WithMinus(unit) : unit \in SIGN_UNITS }
    \cup { InParentheses(unit) : unit \in SIGN_UNITS }

\* texts with several groups of digits and other characters between them,
\* and a text without digits
GROUPED_TEXTS ==
  { S("2020-01-15"), S("15/01/2020"), S("Floor 3 Room 12"), S("n/a soon") }

PARSER_INPUTS ==
  { Txt(text) : text \in CURRENCY_TEXTS \cup AREA_TEXTS \cup PER_AREA_TEXTS
                           \cup DIGIT_STRINGS \cup MARKED_TEXTS
                           \cup SIGNED_TEXTS \cup GROUPED_TEXTS }
  \cup NUMERIC_CELLS

CONTEXT_HINTS == { None, "currency", "area", "percentage" }

InitParser ==
  /\ ReaderIdle
  /\ MapperIdle
  /\ TablesIdle
  /\ ServerIdle
  /\ DetectorIdle
  /\ ResolverIdle
  /\ value \in PARSER_INPUTS
  /\ parsed = NotCalled

Parse ==
  /\ parsed = NotCalled
  /\ \E context_hint \in CONTEXT_HINTS : parsed' = parse(value, context_hint)
  /\ UNCHANGED <<value, readerVars, mapperVars, tableVars, serverVars, detectorVars, resolverVars>>

NextParser == Parse

SpecParser == InitParser /\ [][NextParser]_vars

(***************************************************************************)
(* HeaderMapper.__init__ with synonyms files: the dict self.synonyms is a  *)
(* shallow copy of DEFAULT_SYNONYMS, so the lists of the default tags are  *)
(* the lists of the class attribute, shared by all instances.              *)
(***************************************************************************)
\* the synonyms files: the fields of the document with their alias lists
NoFile == <<>>
FileTenant == << <<"tenant_name", <<S("hauptnutzer")>> >> >>
FileGarage == << <<"garage_id", <<S("garage code")>> >> >>
FileBoth ==
  << <<"_comment", <<S("mieter")>> >>,
     <<"tenant_name", <<S("hauptnutzer")>> >>,
     <<"garage_id", <<S("garage code")>> >> >>
SYNONYMS_FILES == { NoFile, FileTenant, FileGarage, FileBoth }

MaxMappers == 4

\* the index of a tag in DEFAULT_SYNONYMS, 0 when it is no default tag
DefaultIndex(field) ==
  FirstOf({ i \in 1..Len(DEFAULT_SYNONYMS) : DEFAULT_SYNONYMS[i].tag = field })

\* the keys of the synonyms files that start with an underscore
METADATA_KEYS == { "_comment" }

\* not field.startswith('_')
IsField(field) == field \notin METADATA_KEYS

\* self.synonyms[field].extend(syns) for the fields of data that are in
\* self.synonyms: the list extended is the list of DEFAULT_SYNONYMS
RECURSIVE ExtendDefaults(_, _)
ExtendDefaults(appended, data) ==
  IF data = <<>> THEN appended
  ELSE IF IsField(Head(data)[1]) /\ DefaultIndex(Head(data)[1]) > 0
  THEN ExtendDefaults(
         [appended EXCEPT ![DefaultIndex(Head(data)[1])] = @ \o Head(data)[2]],
         Tail(data))
  ELSE ExtendDefaults(appended, Tail(data))

\* self.synonyms[field] = syns for the other fields: entries of the
\* instance alone
OwnEntries(data) ==
  SelectSeq(data, LAMBDA entry : IsField(entry[1]) /\ DefaultIndex(entry[1]) = 0)

\* HeaderMapper(synonyms_file)
Construct ==
  /\ Len(mappers) < MaxMappers
  /\ \E data \in SYNONYMS_FILES :
       /\ mappers' = Append(mappers, [file |-> data, own |-> OwnEntries(data)])
       /\ appended_defaults' = ExtendDefaults(appended_defaults, data)
  /\ UNCHANGED <<readerVars, parserVars, mapperVars, serverVars, detectorVars, resolverVars>>

InitTables ==
  /\ ReaderIdle
  /\ ParserIdle
  /\ MapperIdle
  /\ TablesIdle
  /\ ServerIdle
  /\ DetectorIdle
  /\ ResolverIdle

NextTables == Construct

SpecTables == InitTables /\ [][NextTables]_vars

\* the two tests of the inner loop of map_header for the synonym syn
AliasMatches(syn, normalized) ==
  \/ normalize_header(syn) = normalized
  \/ Len(syn) > 3 /\ Contains(normalized, normalize_header(syn))

AnyAliasMatches(syns, normalized) ==
  \E j \in 1..Len(syns) : AliasMatches(syns[j], normalized)

\* the default entries of self.synonyms with a synonym that matches
DefaultHits(normalized) ==
  MatchingEntries(normalized)
    \cup { i \in 1..Len(DEFAULT_SYNONYMS) :
             AnyAliasMatches(appended_defaults[i], normalized) }

\* the tag map_header finds in the entries of the instance alone
OwnTag(own, hits) == IF hits = {} THEN None ELSE own[Min(hits)][1]

\* map_header over the entries of self.synonyms: the default entries come
\* first in the dict, the entries of the instance after them
TagIn(normalized, default_hits, own) ==
  IF normalized = <<>> THEN None
  ELSE IF default_hits # {} THEN DEFAULT_SYNONYMS[Min(default_hits)].tag
  ELSE OwnTag(own, { i \in 1..Len(own) : AnyAliasMatches(own[i][2], normalized) })

\* mapper.map_header(raw_header) for a mapper constructed earlier
map_header_of(mapper, header) ==
  TagIn(normalize_header(header), DefaultHits(normalize_header(header)), mapper.own)

(***************************************************************************)
(* app.py: the global excel_reader under app.run(threaded=True).  Each     *)
(* request thread runs read_excel on its own upload; the steps of the two  *)
(* calls interleave.  The lists all_records and warnings and the counter   *)
(* sheets_processed are locals of the call.                                *)
(***************************************************************************)
\* AccumulatorOf with the lists kept in the reader instance
SharedAccumulator(t) == 1

\* the locals of the call of thread t
AccumulatorOf(t) == t

ServerSheet(name, grid) == Sheet(name, grid, TRUE)

\* a header row and no data below it
GridHeaderOnly ==
  << <<T("Mieter"), T("Einheit"), T("Miete")>>,
     <<NaN, NaN, NaN>> >>

SERVER_WORKBOOKS ==
  { <<ServerSheet("Mieterliste", GridRentRoll), ServerSheet("Data", GridOneCell),
       ServerSheet("Units", GridTitled)>>,
    <<ServerSheet("Neubau", GridHeaderOnly)>>,
    <<ServerSheet("Tenants", GridTitled), ServerSheet("Info", GridNoCells)>> }

readerButClock ==
  <<workbook, process_all_sheets, pc, excel_file, sheets_to_process, position,
    warnings, all_records, sheets_processed, executed, result, validation_errors>>

\* a request with the upload w
Request(w, flag) ==
  [pc |-> "open", workbook |-> w, process_all_sheets |-> flag,
   excel_file |-> NotOpened, sheets_to_process |-> <<>>, position |-> 1,
   result |-> NoResult]

\* the body of the loop after find_header_row, on the locals acc
AccAfterHeaderSearch(acc, df, sheet_name, header_result, timestamp) ==
  IF ~header_result.found
  THEN [acc EXCEPT !.warnings = Append(@, Warning(sheet_name, "no header row"))]
  ELSE [acc EXCEPT
          !.all_records = @ \o SheetRecords(df, sheet_name, header_result.row,
                                            header_result.headers, timestamp),
          !.sheets_processed = @ + 1]

\* the body of the loop after pd.read_excel, on the locals acc
AccAfterRead(acc, df, sheet_name, timestamp) ==
  AccAfterHeaderSearch(acc, df, sheet_name, find_header_row(df, HEADER_SCAN_ROWS),
                       timestamp)

\* the body of the loop over sheets_to_process, on the locals acc
AccAfterSheet(acc, file, sheet_name, timestamp) ==
  IF read_raises(file, sheet_name)
  THEN [acc EXCEPT !.warnings = Append(@, Warning(sheet_name, "error"))]
  ELSE AccAfterRead(acc, SheetOf(file, sheet_name).grid, sheet_name, timestamp)

\* the result read_excel builds from the locals acc after the loop
ResultFrom(acc, file, sheets) ==
  Extracted(_resolve_tenant_and_unit(acc.all_records), acc.warnings,
            detect_language(
              LanguageHeaders(file, SubSeq(sheets, 1, Min({3, Len(sheets)})))),
            acc.sheets_processed)

FailedToOpen ==
  ExtractionResult(FALSE, <<>>, "failed to open",
                   <<Warning(<<>>, "open error")>>, "none", 0, 0)

NoSuitableSheets ==
  ExtractionResult(FALSE, <<>>, "no suitable sheets",
                   <<Warning(<<>>, "no sheets")>>, "none", 0, 0)

\* thread t enters read_excel and opens its upload
ServerOpen(t) ==
  /\ frames[t].pc = "open"
  /\ frames' = [frames EXCEPT ![t].excel_file = frames[t].workbook,
                              ![t].pc = "select"]
  /\ accumulators' = [accumulators EXCEPT ![AccumulatorOf(t)] = NewAccumulator]
  /\ UNCHANGED <<readerVars, parserVars, mapperVars, tableVars, detectorVars, resolverVars>>

\* pd.ExcelFile(filepath) raises in thread t
ServerOpenFails(t) ==
  /\ frames[t].pc = "open"
  /\ frames' = [frames EXCEPT ![t].result = FailedToOpen, ![t].pc = "done"]
  /\ accumulators' = [accumulators EXCEPT ![AccumulatorOf(t)] = NewAccumulator]
  /\ UNCHANGED <<readerVars, parserVars, mapperVars, tableVars, detectorVars, resolverVars>>

\* the frame of a call after the choice of the sheets
FrameChosen(frame, chosen) ==
  IF chosen = <<>>
  THEN [frame EXCEPT !.sheets_to_process = chosen, !.result = NoSuitableSheets,
                     !.pc = "done"]
  ELSE [frame EXCEPT !.sheets_to_process = chosen, !.pc = "sheets"]

ServerSelectSheets(t) ==
  /\ frames[t].pc = "select"
  /\ frames' = [frames EXCEPT ![t] =
                  FrameChosen(@, ChosenSheets(@.excel_file, @.process_all_sheets))]
  /\ UNCHANGED <<accumulators, readerVars, parserVars, mapperVars, tableVars, detectorVars, resolverVars>>

\* the frame of a call after one iteration of the loop
FrameAfterSheet(frame) ==
  [frame EXCEPT !.position = @ + 1,
                !.pc = IF frame.position = Len(frame.sheets_to_process)
                       THEN "finish" ELSE "sheets"]

\* one iteration of the loop over sheets_to_process in thread t
ServerProcessSheet(t) ==
  /\ frames[t].pc = "sheets"
  /\ accumulators' =
       [accumulators EXCEPT ![AccumulatorOf(t)] =
          AccAfterSheet(@, frames[t].excel_file,
                        frames[t].sheets_to_process[frames[t].position], clock)]
  /\ frames' = [frames EXCEPT ![t] = FrameAfterSheet(@)]
  /\ clock' = clock + 1
  /\ UNCHANGED <<readerButClock, parserVars, mapperVars, tableVars, detectorVars, resolverVars>>

\* after the loop in thread t: the result of the call
ServerFinish(t) ==
  /\ frames[t].pc = "finish"
  /\ frames' = [frames EXCEPT ![t].result =
                    ResultFrom(accumulators[AccumulatorOf(t)],
                               frames[t].excel_file, frames[t].sheets_to_process),
                  ![t].pc = "done"]
  /\ UNCHANGED <<accumulators, readerVars, parserVars, mapperVars, tableVars, detectorVars, resolverVars>>

InitServer ==
  /\ ReaderIdle
  /\ ParserIdle
  /\ MapperIdle
  /\ TablesIdle
  /\ DetectorIdle
  /\ ResolverIdle
  /\ accumulators = [t \in THREADS |-> NewAccumulator]
  /\ \E w1 \in SERVER_WORKBOOKS, w2 \in SERVER_WORKBOOKS, flag1 \in BOOLEAN,
        flag2 \in BOOLEAN :
       frames = <<Request(w1, flag1), Request(w2, flag2)>>

NextServer ==
  \E t \in THREADS :
    \/ ServerOpen(t)
    \/ ServerOpenFails(t)
    \/ ServerSelectSheets(t)
    \/ ServerProcessSheet(t)
    \/ ServerFinish(t)

SpecServer == InitServer /\ [][NextServer]_vars

(***************************************************************************)
(* HeaderDetector.find_header_row on grids whose rows with header cells    *)
(* lie before and after the row of index max_rows                          *)
(***************************************************************************)
BlankRow == <<NaN, NaN, NaN>>

\* rows with 0, 1, 2 and 3 cells that map to a tag, a row with a short
\* alias, a title row
HEADER_ROWS ==
  { <<T("Lorem"), T("ipsum"), NaN>>,
    <<T("Mieter"), T("x"), NaN>>,
    <<T("Mieter"), T("Einheit"), NaN>>,
    <<T("Tenant"), T("Unit No"), T("Rent")>>,
    <<T("BK"), T("Status"), T("Miete")>>,
    <<T("Rent Roll 2024"), NaN, NaN>> }

MaxHeaderRows == 3

\* the numbers of blank rows above the first row with text
BLANK_ROWS_ABOVE == { 0, 27, 28, 29, 30 }

RECURSIVE RowSeqs(_)
RowSeqs(n) ==
  IF n = 0 THEN {<<>>}
  ELSE {Append(rows, row) : rows \in RowSeqs(n - 1), row \in HEADER_ROWS}

RECURSIVE RowSeqsUpTo(_)
RowSeqsUpTo(n) == IF n = 1 THEN RowSeqs(1) ELSE RowSeqs(n) \cup RowSeqsUpTo(n - 1)

DETECTOR_GRIDS ==
  { [r \in 1..blank |-> BlankRow] \o rows :
      blank \in BLANK_ROWS_ABOVE, rows \in RowSeqsUpTo(MaxHeaderRows) }

InitDetector ==
  /\ ReaderIdle
  /\ ParserIdle
  /\ MapperIdle
  /\ TablesIdle
  /\ ServerIdle
  /\ scanned_df \in DETECTOR_GRIDS
  /\ header_found = NotSearched
  /\ merged_headers = NotMerged
  /\ ResolverIdle

\* self.header_detector.find_header_row(df)
FindHeaderRow ==
  /\ header_found = NotSearched
  /\ header_found' = find_header_row(scanned_df, HEADER_SCAN_ROWS)
  /\ UNCHANGED <<scanned_df, merged_headers, readerVars, parserVars, mapperVars,
                 tableVars, serverVars, resolverVars>>

\* read_excel after a header row was found: raw_headers of the row, merged
\* with the row above when header_row > 0
MergeHeaders ==
  /\ header_found.found
  /\ merged_headers = NotMerged
  /\ merged_headers' = RawHeaders(scanned_df, header_found.row, header_found.headers)
  /\ UNCHANGED <<scanned_df, header_found, readerVars, parserVars, mapperVars,
                 tableVars, serverVars, resolverVars>>

NextDetector == FindHeaderRow \/ MergeHeaders

SpecDetector == InitDetector /\ [][NextDetector]_vars

(***************************************************************************)
(* _resolve_tenant_and_unit on records of the text fields the resolver     *)
(* reads.  The fields are text fields of _process_row: their values are    *)
(* trimmed texts.                                                          *)
(***************************************************************************)
Absent == NoneVal

TENANT_NAMES == { Absent, T("Acme GmbH"), T("62210"), T("0170123456") }
PARTNERS == { Absent, T("Beta AG"), T("12345") }
UNIT_IDS == { Absent, Txt(<<>>), T("A1") }
COMPOSITE_IDS == { Absent, T("MO-7") }
SAP_OBJECT_NUMBERS == { Absent, T("S9") }
CONTRACT_IDS == { Absent, T("K7") }
BOOKKEEPING_AREAS == { Absent, T("0100") }
BUSINESS_UNITS == { Absent, T("BU") }
BUSINESS_UNIT_CODES == { Absent, T("B2") }
MO_NUMBERS == { Absent, T("7") }

\* the record with the keys of fields that are not absent
RecordOf(fields) ==
  [k \in { key \in DOMAIN fields : fields[key] # Absent } |-> fields[k]]

GIVEN_RECORDS ==
  { RecordOf([tenant_name |-> tenant, contractual_partner |-> partner,
              unit_id |-> unit, composite_unit_id |-> composite,
              sap_object_number |-> sap_obj, contract_id |-> contract,
              bookkeeping_area |-> bk, business_unit |-> bu,
              business_unit_code |-> bu_code, mo_number |-> mo]) :
      tenant \in TENANT_NAMES, partner \in PARTNERS, unit \in UNIT_IDS,
      composite \in COMPOSITE_IDS, sap_obj \in SAP_OBJECT_NUMBERS,
      contract \in CONTRACT_IDS, bk \in BOOKKEEPING_AREAS,
      bu \in BUSINESS_UNITS, bu_code \in BUSINESS_UNIT_CODES, mo \in MO_NUMBERS }

MaxPasses == 2

InitResolver ==
  /\ ReaderIdle
  /\ ParserIdle
  /\ MapperIdle
  /\ TablesIdle
  /\ ServerIdle
  /\ DetectorIdle
  /\ \E record \in GIVEN_RECORDS : given_records = <<record>>
  /\ resolved_records = given_records
  /\ passes = 0

\* self._resolve_tenant_and_unit(all_records)
ResolvePass ==
  /\ passes < MaxPasses
  /\ resolved_records' = _resolve_tenant_and_unit(resolved_records)
  /\ passes' = passes + 1
  /\ UNCHANGED <<given_records, readerVars, parserVars, mapperVars, tableVars,
                 serverVars, detectorVars>>

NextResolver == ResolvePass

SpecResolver == InitResolver /\ [][NextResolver]_vars

(***************************************************************************)
(* Properties of the reader on workbooks (Spec)                            *)
(***************************************************************************)
\* read_excel has returned on a file that opened
Returned == pc \in {"done", "responded"} /\ excel_file # NotOpened

\* the name holds a keyword of SKIP_KEYWORDS
HasSkipKeyword(name) ==
  \E k \in 1..Len(SKIP_KEYWORDS) : Contains(lower(name), SKIP_KEYWORDS[k])

\* the header row of a grid, as the loop of read_excel finds it
HeaderOf(grid) == find_header_row(grid, HEADER_SCAN_ROWS)

\* the records the rows of a sheet give, stamped with the time timestamp
RecordsOf(sheet, timestamp) ==
  SheetRecords(sheet.grid, sheet.name, HeaderOf(sheet.grid).row,
               HeaderOf(sheet.grid).headers, timestamp)

\* a sheet with a detectable header and data rows
HasHeaderAndData(sheet) ==
  sheet.readable /\ HeaderOf(sheet.grid).found /\ RecordsOf(sheet, 0) # <<>>

\* a sheet with no row of at least 2 recognised header cells
HasNoHeader(sheet) == sheet.readable /\ ~HeaderOf(sheet.grid).found

\* the number of recognised header cells in the first rows of a sheet
RecognisedCells(sheet) ==
  _count_header_matches(FirstRows(sheet.grid, HEADER_SCAN_ROWS))

\* a workbook of 3 sheets read under the default rules: sheets 1 and 3 have
\* a header and data, sheet 2 has no header
PartialFailureCase ==
  /\ Returned
  /\ process_all_sheets
  /\ Len(workbook) = 3
  /\ HasHeaderAndData(workbook[1])
  /\ HasNoHeader(workbook[2])
  /\ HasHeaderAndData(workbook[3])

\* the records of sheets 1 and 3 in that order, one warning, on sheet 2
PartialFailureResult ==
  /\ result.data = _resolve_tenant_and_unit(RecordsOf(workbook[1], 0)
                                              \o RecordsOf(workbook[3], 1))
  /\ Len(result.warnings) = 1
  /\ result.warnings[1].sheet = workbook[2].name

\* C1, as stated: on a 3-sheet workbook whose sheets 1 and 3 have a
\* detectable header and data rows and whose sheet 2 has no row with at
\* least 2 recognised header cells, read_excel under the default rules
\* returns the records of sheets 1 and 3, in that order, and exactly one
\* warning, which names sheet 2.
C1_PartialFailureAsStated == PartialFailureCase => PartialFailureResult

\* C1, amended: the same holds when no sheet name of the workbook holds a
\* skip keyword and sheet 2 has at least one recognised header cell in its
\* first 30 rows (a sheet without any is not chosen, so nothing is reported
\* on it).
C1_PartialFailure ==
  /\ PartialFailureCase
  /\ \A i \in 1..3 : ~HasSkipKeyword(workbook[i].name)
  /\ RecognisedCells(workbook[2]) > 0
  => PartialFailureResult

C1_Witness ==
  /\ PartialFailureCase
  /\ RecognisedCells(workbook[2]) > 0
  /\ PartialFailureResult
  /\ \E i, j \in 1..Len(result.data) :
       /\ Get(result.data[i], "_source_sheet") = Txt(workbook[1].name)
       /\ Get(result.data[j], "_source_sheet") = Txt(workbook[3].name)

\* the steps of read_excel after the opening of the file
STEPS_AFTER_OPEN == {"select", "header", "extract", "resolve"}

\* C2: when the workbook cannot be opened, read_excel returns success false,
\* no records, sheets_processed 0 and total_rows_extracted 0, and none of
\* sheet selection, header detection, extraction and identity resolution
\* has run.
C2_OpenFailureIsFatal ==
  pc \in {"done", "responded"} /\ excel_file = NotOpened =>
    /\ ~result.success
    /\ result.data = <<>>
    /\ result.sheets_processed = 0
    /\ result.total_rows_extracted = 0
    /\ all_records = <<>>
    /\ executed \cap STEPS_AFTER_OPEN = {}

C2_Witness ==
  /\ pc = "done"
  /\ excel_file = NotOpened
  /\ ~result.success
  /\ Len(result.warnings) = 1
  /\ \E i \in 1..Len(workbook) : HasHeaderAndData(workbook[i])

\* the sheet the loop of read_excel is at fails: its read raises or it has
\* no header row
SheetFails(name) ==
  \/ read_raises(excel_file, name)
  \/ ~HeaderOf(SheetOf(excel_file, name).grid).found

\* one iteration of the loop gives one of the two outcomes and leaves the
\* records and warnings of the sheets before it alone
OneOutcome(name) ==
  /\ Len(all_records') >= Len(all_records)
  /\ SubSeq(all_records', 1, Len(all_records)) = all_records
  /\ IF SheetFails(name)
     THEN /\ Len(warnings') = Len(warnings) + 1
          /\ SubSeq(warnings', 1, Len(warnings)) = warnings
          /\ warnings'[Len(warnings')].sheet = name
          /\ all_records' = all_records
          /\ sheets_processed' = sheets_processed
     ELSE /\ warnings' = warnings
          /\ sheets_processed' = sheets_processed + 1
          /\ \A i \in (Len(all_records) + 1)..Len(all_records') :
               Get(all_records'[i], "_source_sheet") = Txt(name)
  /\ position' = position + 1
  /\ sheets_to_process' = sheets_to_process
  /\ IF position < Len(sheets_to_process) THEN pc' = "sheets"
     ELSE /\ pc' = "finish"
          /\ sheets_processed' + Len(warnings') = Len(sheets_to_process)

\* C3: each chosen sheet either fails (no header row, or an exception), and
\* then adds exactly one warning naming it and no record, or adds its
\* records and 1 to sheets_processed; the records of earlier sheets stay as
\* they are, the later sheets are still processed, and at the end of the
\* loop sheets_processed plus the number of warnings is the number of
\* chosen sheets.
C3_SheetIsolation ==
  [][pc = "sheets" => OneOutcome(sheets_to_process[position])]_vars

C3_Witness ==
  /\ pc = "finish"
  /\ sheets_processed + Len(warnings) = Len(sheets_to_process)
  /\ \E i, j \in 1..Len(sheets_to_process) :
       /\ i < j
       /\ \E k \in 1..Len(warnings) :
            /\ warnings[k].sheet = sheets_to_process[i]
            /\ warnings[k].what = "no header row"
       /\ \E k \in 1..Len(all_records) :
            Get(all_records[k], "_source_sheet") = Txt(sheets_to_process[j])

\* the names of the sheets read_excel has processed: the chosen sheets, and
\* with them the sheets of the records and of the warnings
ProcessedSheets ==
  { sheets_to_process[i] : i \in 1..Len(sheets_to_process) }
    \cup { Get(all_records[i], "_source_sheet").text : i \in 1..Len(all_records) }
    \cup { warnings[i].sheet : i \in 1..Len(warnings) }

\* C4: under the default rules a sheet whose name holds a skip keyword is
\* never processed when the workbook has a sheet whose name holds none; a
\* workbook of the sheets "Summary" and "Mieterliste" processes only
\* "Mieterliste", whatever the cells of the two sheets.
C4_SkippedSheetsNotProcessed ==
  /\ process_all_sheets
  /\ pc \in {"sheets", "finish", "done", "responded"}
  /\ excel_file # NotOpened
  /\ \E i \in 1..Len(workbook) : ~HasSkipKeyword(workbook[i].name)
  => /\ \A name \in ProcessedSheets : ~HasSkipKeyword(name)
     /\ ({ workbook[i].name : i \in 1..Len(workbook) }
           = {S("Summary"), S("Mieterliste")}
         => sheets_to_process = <<S("Mieterliste")>>)

C4_Witness ==
  /\ process_all_sheets
  /\ pc = "done"
  /\ workbook = << Sheet("Summary", GridRentRoll, TRUE),
                   Sheet("Mieterliste", GridNoCells, TRUE) >>
  /\ sheets_to_process = <<S("Mieterliste")>>
  /\ result.sheets_processed = 0

\* the first cell of the row holds a keyword of SUMMARY_KEYWORDS
IsSummaryCell(cell) ==
  \E k \in 1..Len(SUMMARY_KEYWORDS) :
    Contains(lower(cell_text(cell)), SUMMARY_KEYWORDS[k])

\* the index of the first summary row after the header row (rows numbered
\* from 0), the number of rows when there is none
FirstSummaryRow(grid, header_row) ==
  Min({ r \in (header_row + 1)..(Len(grid) - 1) : IsSummaryCell(grid[r + 1][1]) }
        \cup {Len(grid)})

\* the headers of a sheet as extract_data maps them
MappedHeadersOf(raw_headers) ==
  [i \in 1..Len(raw_headers) |-> map_header(raw_headers[i])]

MappedHeaders(grid, header) ==
  MappedHeadersOf(RawHeaders(grid, header.row, header.headers))

\* row r of the grid is not blank and gives a record with meaningful data
QualifiesUnder(grid, r, mapped_headers) ==
  /\ ~IsEmptyRow(grid[r + 1])
  /\ _has_meaningful_data(_process_row(grid[r + 1], mapped_headers, r))

Qualifies(grid, r) == QualifiesUnder(grid, r, MappedHeaders(grid, HeaderOf(grid)))

\* the qualifying rows between the header row and the first summary row,
\* numbered as _source_row numbers them
RowsBeforeSummaryUnder(grid, header_row, mapped_headers) ==
  { r + 1 : r \in { q \in (header_row + 1)..(FirstSummaryRow(grid, header_row) - 1) :
                      QualifiesUnder(grid, q, mapped_headers) } }

RowsBeforeSummaryOf(grid, header) ==
  RowsBeforeSummaryUnder(grid, header.row, MappedHeaders(grid, header))

RowsBeforeSummary(grid) == RowsBeforeSummaryOf(grid, HeaderOf(grid))

\* the source rows of the records of the result that come from a sheet
SourceRows(name) ==
  { Get(result.data[i], "_source_row").m :
      i \in { k \in 1..Len(result.data) :
                Get(result.data[k], "_source_sheet") = Txt(name) } }

\* a sheet whose rows were extracted
WasExtracted(sheet) ==
  /\ \E i \in 1..Len(sheets_to_process) : sheets_to_process[i] = sheet.name
  /\ sheet.readable
  /\ HeaderOf(sheet.grid).found

\* C5: the records of a sheet come from the qualifying rows between the
\* header row and the first row whose first cell holds a summary keyword:
\* each of these rows gives a record, that row and the rows after it give
\* none, also when they hold tenant data.
C5_StopsAtSummaryRow ==
  Returned =>
    \A i \in 1..Len(workbook) :
      WasExtracted(workbook[i]) =>
        SourceRows(workbook[i].name) = RowsBeforeSummary(workbook[i].grid)

C5_Witness ==
  /\ Returned
  /\ workbook = << Sheet("Mieterliste", GridRentRoll, TRUE) >>
  /\ FirstSummaryRow(GridRentRoll, 0) = 4
  /\ Qualifies(GridRentRoll, 5)
  /\ SourceRows(S("Mieterliste")) = {2, 4}

(***************************************************************************)
(* Properties of the reader on the rows of one sheet (SpecRows)            *)
(***************************************************************************)
IsDigitString(s) == s # <<>> /\ \A i \in 1..Len(s) : s[i] \in Digits

\* s without a trailing ".0"
WithoutDotZero(s) ==
  IF Len(s) >= 2 /\ s[Len(s) - 1] = "." /\ s[Len(s)] = "0"
  THEN SubSeq(s, 1, Len(s) - 2)
  ELSE s

\* the digits of s
DigitCount(s) == Cardinality({i \in 1..Len(s) : s[i] \in Digits})

\* s is shaped like a phone number: a leading + or a leading 01..09, and 9
\* or more digits
IsPhoneShaped(s) ==
  /\ DigitCount(s) >= 9
  /\ \/ s[1] = "+"
     \/ s[1] = "0" /\ s[2] \in Digits \ {"0"}

\* the identity resolution of one record, on its tenant name
TenantResolved(before, after) ==
  LET name == Get(before, "tenant_name").text
  IN  /\ IsDigitString(WithoutDotZero(name)) /\ ~IsPhoneShaped(WithoutDotZero(name))
         => /\ Get(after, "tenant_id") = Txt(WithoutDotZero(name))
            /\ "tenant_name" \notin DOMAIN after
      /\ name # <<>> /\ IsPhoneShaped(name)
         => /\ Get(after, "tenant_name") = Get(before, "tenant_name")
            /\ "tenant_id" \notin DOMAIN after

\* C7: the identity resolution turns a tenant_name made of digits only
\* (after the removal of a trailing ".0") that is not phone-shaped into a
\* tenant_id of these digits and removes the tenant_name; a phone-shaped
\* tenant_name stays as it is and the record gets no tenant_id.
C7_TenantIdentity ==
  [][pc = "finish" =>
       /\ Len(all_records') = Len(all_records)
       /\ \A i \in 1..Len(all_records) :
            TenantResolved(all_records[i], all_records'[i])]_vars

\* the tenant cell of the last row of the sheet
TenantCell == workbook[1].grid[3][1]

C7_Witness ==
  /\ pc = "done"
  /\ excel_file # NotOpened
  /\ TenantCell = T("62210.0")
  /\ Len(result.data) = 2
  /\ Get(result.data[2], "tenant_id") = T("62210")
  /\ "tenant_name" \notin DOMAIN result.data[2]

\* the issues validate reports on record idx (counted from 0) and field
IssuesOn(idx, field) ==
  Cardinality({ k \in 1..Len(validation_errors) :
                  /\ validation_errors[k].row_index = idx
                  /\ validation_errors[k].field = field })

IDENTIFIERS == {"tenant_name", "tenant_id", "unit_id", "contract_id", "asset_id"}

IsEmpty(v) == v = NoneVal \/ v = Txt(<<>>)

\* 1 when the condition holds, else 0
OneIf(condition) == IF condition THEN 1 ELSE 0

IsNegative_(v) == IsNumber(v) /\ v.m < 0
Exceeds1e9(v) == IsNumber(v) /\ GreaterThan1e9(v)

\* the issues of one record are those of the three rules, and no others
IssuesAsRuled(idx, record) ==
  /\ IssuesOn(idx, "tenant/unit identifiers")
       = OneIf(\A f \in IDENTIFIERS : IsEmpty(Get(record, f)))
  /\ IssuesOn(idx, "monthly_rent_value")
       = OneIf(IsNegative_(Get(record, "monthly_rent_value")))
           + OneIf(Exceeds1e9(Get(record, "monthly_rent_value")))
  /\ \A f \in {"annual_rent_value", "area_sqm_value", "area_sqft_value"} :
       IssuesOn(idx, f) = OneIf(Exceeds1e9(Get(record, f)))

C6_AliasMapsToItsTag ==
  mapped # NotMapped =>
    \A i \in 1..Len(synonyms) : \A j \in 1..Len(synonyms[i].syns) :
      raw_header = synonyms[i].syns[j] => mapped = synonyms[i].tag

(***************************************************************************)
(* Properties of parse (SpecParser)                                        *)
(***************************************************************************)
\* the ISO code of a token of the currency table
CodeOf(token) ==
  IF token \in ISO_CURRENCIES THEN token ELSE Lookup(CURRENCY_SYMBOLS, token, token)

\* C9: parse of a number followed by a blank and a symbol of the currency
\* table or a listed ISO code gives the ISO code of the token as unit and
\* the number as value.
C9_CurrencyUnitPreserved ==
  parsed # NotCalled =>
    \A n \in NUMBERS : \A token \in CURRENCY_TOKENS :
      value = Txt(NumberToken(n, S(" "), token)) =>
        /\ parsed.unit = Txt(CodeOf(token))
        /\ parsed.value = n.number

\* the text holds one of the tokens, in any case of the letters
HasToken(text, tokens) == \E token \in tokens : Contains(lower(text), lower(token))

SQFT == Txt(S("sqft"))
SQM == Txt(S("m") \o U_sup2)

\* the unit of an area text is the unit of its token
AreaUnitKept ==
  /\ HasToken(value.text, SQFT_TOKENS) /\ ~HasToken(value.text, SQM_TOKENS)
       => parsed.unit = SQFT
  /\ HasToken(value.text, SQM_TOKENS) /\ ~HasToken(value.text, SQFT_TOKENS)
       => parsed.unit = SQM

\* the value of a number written with an area token is the number
AreaValueKept ==
  \A n \in NUMBERS : \A sep \in SEPARATORS : \A token \in AREA_TOKENS :
    value.text \in { NumberToken(n, sep, token), NumberToken(n, sep, upper(token)),
                     S("approx. ") \o NumberToken(n, S(" "), token) }
      => parsed.value = n.number

AreaUnitNotConverted ==
  /\ HasToken(value.text, SQFT_TOKENS) /\ ~HasToken(value.text, SQM_TOKENS)
       => parsed.unit # SQM
  /\ HasToken(value.text, SQM_TOKENS) /\ ~HasToken(value.text, SQFT_TOKENS)
       => parsed.unit # SQFT

DigitsOf(s) == SelectSeq(s, LAMBDA c : c \in Digits)

\* the position of the last comma or dot of s
LastSeparator(s) == Max({ i \in 1..Len(s) : s[i] \in {",", "."} })

\* the number s writes when its last comma or dot is the decimal point and
\* every other separator groups digits
LastIsDecimal(s) ==
  Float(TextToNat(DigitsOf(s)),
        Len(DigitsOf(SubSeq(s, LastSeparator(s) + 1, Len(s)))))

\* the number s writes when all its separators group digits
AllGrouping(s) == Float(TextToNat(DigitsOf(s)), 0)

\* parse has run on a digit string
ParsedDigitString ==
  parsed # NotCalled /\ value.kind = "text" /\ value.text \in DIGIT_STRINGS

\* s holds a comma and a dot, and the one that occurs last occurs once
BothSeparators(s) ==
  /\ Count(s, ",") > 0
  /\ Count(s, ".") > 0
  /\ Count(s, s[LastSeparator(s)]) = 1

\* s holds apostrophes and one dot, which is not followed by 3 digits
ApostrophesAndDot(s) ==
  /\ Count(s, "'") > 0
  /\ Count(s, ",") = 0
  /\ Count(s, ".") = 1
  /\ Len(DigitsOf(SubSeq(s, LastSeparator(s) + 1, Len(s)))) # 3

\* C11: for a digit string with a comma and a dot, the separator that occurs
\* last (once) is the decimal point and every occurrence of the other one
\* is removed; apostrophes are removed as grouping.
C11_LastSeparatorIsDecimal ==
  ParsedDigitString /\ (BothSeparators(value.text) \/ ApostrophesAndDot(value.text))
    => parsed.value = LastIsDecimal(value.text) /\ parsed.unit = NoneVal

C11_Witness ==
  /\ value = T("1.234.567,89")
  /\ BothSeparators(value.text)
  /\ parsed # NotCalled
  /\ parsed.value = Float(123456789, 2)


\* the only separator of s is the comma
CommaOnly(s) == Count(s, ",") > 0 /\ Count(s, ".") = 0 /\ Count(s, "'") = 0

\* s has a single comma, followed by 1 or 2 digits
DecimalComma(s) == Count(s, ",") = 1 /\ Len(s) - LastSeparator(s) \in {1, 2}

\* C12: for a digit string whose only separator is the comma, a single comma
\* followed by 1 or 2 digits is the decimal point; a single comma followed
\* by exactly 3 digits, and every other shape, is grouping: all commas are
\* removed.
C12_CommaOnlyPolicy ==
  ParsedDigitString /\ CommaOnly(value.text) =>
    /\ parsed.unit = NoneVal
    /\ parsed.value = IF DecimalComma(value.text) THEN LastIsDecimal(value.text)
                      ELSE AllGrouping(value.text)

C12_Witness ==
  /\ value = T("1,234")
  /\ CommaOnly(value.text)
  /\ parsed # NotCalled
  /\ parsed.value = Float(1234, 0)


(***************************************************************************)
(* Properties of parse on the original text (SpecParser)                   *)
(***************************************************************************)
\* parse has run on a text
ParsedText == parsed # NotCalled /\ value.kind = "text"

\* the record that stores the result of parse under the tag monthly_rent
StoredRent == StoreParsed(EmptyRecord, "monthly_rent", parsed)

\* the original text of the result is text, and the record of a result with
\* a unit stores it under the key of the original
OriginalIs(text) ==
  /\ parsed.original_text = text
  /\ Truthy(parsed.unit) => Get(StoredRent, "monthly_rent_original") = Txt(text)

\* C13, as stated: the original_text of the parse of a text is the text
\* exactly as given, and it is what the record stores as the original.
C13_OriginalTextAsGiven == ParsedText => OriginalIs(value.text)

\* C13, amended: the original_text of the parse of a text is the text
\* without its leading and trailing whitespace, otherwise unchanged
\* (markers, operators, units and separators stay), and it is what the
\* record stores as the original.
C13_OriginalTextTrimmed == ParsedText => OriginalIs(strip(value.text))

C13_Witness ==
  /\ value = T(" >= 90% ")
  /\ parsed # NotCalled
  /\ parsed.value = Float(90, 0)
  /\ parsed.unit = T("%")
  /\ parsed.original_text = S(">= 90%")
  /\ Get(StoredRent, "monthly_rent_original") = T(">= 90%")


(***************************************************************************)
(* Properties of HeaderMapper construction (SpecTables)                    *)
(***************************************************************************)
PROBE_HEADERS == { S("Hauptnutzer"), S("Garage Code"), S("Mieter"), S("Lorem") }

\* the lists of DEFAULT_SYNONYMS are as the module defines them
DefaultsUnchanged ==
  \A i \in 1..Len(DEFAULT_SYNONYMS) : appended_defaults[i] = <<>>

\* a mapper constructed without a synonyms file maps as the defaults do
PlainMappersMapAsDefaults ==
  \A k \in 1..Len(mappers) :
    mappers[k].file = NoFile =>
      \A header \in PROBE_HEADERS :
        map_header_of(mappers[k], header) = map_header(header)

\* no alias is in a list of the defaults more than once
NoAliasTwice ==
  \A i \in 1..Len(DEFAULT_SYNONYMS) :
    \A j, k \in 1..Len(appended_defaults[i]) :
      appended_defaults[i][j] = appended_defaults[i][k] => j = k

\* C14: the default synonym table is never mutated: constructing a
\* HeaderMapper with a synonyms file adds aliases to the table of that
\* instance alone, so a mapper constructed without a file maps every header
\* as the defaults do, and constructing twice with the same file leaves the
\* table as constructing once does.
C14_DefaultsNeverMutated ==
  /\ DefaultsUnchanged
  /\ PlainMappersMapAsDefaults
  /\ NoAliasTwice


(***************************************************************************)
(* Properties of the reader shared by two request threads (SpecServer)     *)
(***************************************************************************)
\* the locals of read_excel on the document w processed alone
RECURSIVE AccOver(_, _, _)
AccOver(acc, file, sheets) ==
  IF sheets = <<>> THEN acc
  ELSE AccOver(AccAfterSheet(acc, file, Head(sheets), 0), file, Tail(sheets))

AloneOn(file, sheets) ==
  IF sheets = <<>> THEN NoSuitableSheets
  ELSE ResultFrom(AccOver(NewAccumulator, file, sheets), file, sheets)

\* the result of read_excel on the document w processed alone
Alone(w, flag) == AloneOn(w, ChosenSheets(w, flag))

\* a result without the times of extraction in its records
Untimed(res) ==
  [res EXCEPT !.data = [i \in 1..Len(res.data) |->
                          Del(res.data[i], "_extraction_timestamp")]]

SheetNamesOf(w) == { w[i].name : i \in 1..Len(w) }

\* the records and the warnings of a result name sheets of the document w
OwnSheetsOnly(res, w) ==
  /\ \A i \in 1..Len(res.data) :
       Get(res.data[i], "_source_sheet").text \in SheetNamesOf(w)
  /\ \A i \in 1..Len(res.warnings) :
       res.warnings[i].sheet \in SheetNamesOf(w) \cup {<<>>}

ResultAsAlone(frame) ==
  IF frame.excel_file = NotOpened THEN frame.result = FailedToOpen
  ELSE /\ Untimed(frame.result) = Untimed(Alone(frame.workbook, frame.process_all_sheets))
       /\ OwnSheetsOnly(frame.result, frame.workbook)

\* C15: when one reader instance processes two documents in two threads,
\* the steps of the calls interleaved in any order, the result of each call
\* (records, warnings, sheets_processed) is the result of processing its
\* document alone, the times of extraction apart; no record and no warning
\* of one document is in the result of the other.
C15_NoCrossDocumentState ==
  \A t \in THREADS : frames[t].pc = "done" => ResultAsAlone(frames[t])

TimesOf(res) ==
  { Get(res.data[i], "_extraction_timestamp").m : i \in 1..Len(res.data) }

\* both calls are done on different documents, and a sheet of the second
\* call was extracted between two sheets of the first
C15_Witness ==
  /\ frames[1].pc = "done"
  /\ frames[2].pc = "done"
  /\ frames[1].workbook # frames[2].workbook
  /\ frames[1].result.success
  /\ frames[2].result.success
  /\ Len(frames[1].result.warnings) > 0
  /\ \E a \in TimesOf(frames[1].result), b \in TimesOf(frames[2].result) : a < b
  /\ \E a \in TimesOf(frames[1].result), b \in TimesOf(frames[2].result) : b < a


\* the cell of the sheet a record was read from, in the column col
SourceCell(record, col) ==
  workbook[1].grid[Get(record, "_source_row").m][col]

\* the tag of the column col of the sheet
ColumnTag(col) == map_header(cell_str(workbook[1].grid[1][col]))

TriadKeys(tag) == { tag \o "_value", tag \o "_unit", tag \o "_original" }

\* the record holds the text of the cell under the bare tag, and no triad
StoredAsText(record, tag, cell) ==
  /\ Get(record, tag) = Txt(strip(cell_str(cell)))
  /\ TriadKeys(tag) \cap DOMAIN record = {}

\* C16: for every column mapped to a text-only tag and every cell that is
\* not empty, the extracted record holds the trimmed text of the cell under
\* the bare tag, never a value/unit/original triad, whatever the text holds.
C16_TextFieldsKeptAsText ==
  pc = "finish" =>
    \A i \in 1..Len(all_records) :
      \A col \in 1..Len(workbook[1].grid[1]) :
        ColumnTag(col) \in TEXT_FIELDS /\ ~IsNone(SourceCell(all_records[i], col))
          => StoredAsText(all_records[i], ColumnTag(col), SourceCell(all_records[i], col))


\* the tenant "Crossfit GmbH" of the last row is stored as a triad
C16_TriadForTenant ==
  /\ pc = "finish"
  /\ TenantCell = T("Crossfit GmbH")
  /\ Len(all_records) = 2
  /\ "tenant_name" \notin DOMAIN all_records[2]
  /\ Get(all_records[2], "tenant_name_unit") = T("sqft")
  /\ Get(all_records[2], "tenant_name_value") = NoneVal
  /\ Get(all_records[2], "tenant_name_original") = T("Crossfit GmbH")


CanonicalTags == { DEFAULT_SYNONYMS[i].tag : i \in 1..Len(DEFAULT_SYNONYMS) }

\* the columns of the sheet mapped to the tag
ColumnsOf(tag) == { col \in 1..Len(workbook[1].grid[1]) : ColumnTag(col) = tag }

\* the parse of the cell has a unit
YieldsUnit(tag, cell) == Truthy(parse(cell, get_field_type_hint(tag)).unit)

\* the bare key or the whole triad, not both, the triad iff a unit was parsed
BareOrTriad(record, tag) ==
  /\ TriadKeys(tag) \cap DOMAIN record \in { {}, TriadKeys(tag) }
  /\ ~(tag \in DOMAIN record /\ TriadKeys(tag) \subseteq DOMAIN record)
  /\ TriadKeys(tag) \subseteq DOMAIN record
       <=> \E col \in ColumnsOf(tag) : YieldsUnit(tag, SourceCell(record, col))

\* C17: in every extracted record and for every canonical tag, the record
\* holds the bare key or the triad of value, unit and original, never both
\* and never part of the triad; the triad is there exactly when the parse of
\* a cell mapped to the tag yielded a unit, also when two columns of the
\* sheet map to the same tag.
C17_BareKeyOrTriad ==
  pc = "finish" =>
    \A i \in 1..Len(all_records) :
      \A tag \in CanonicalTags : BareOrTriad(all_records[i], tag)

\* C17 on the sheets whose columns map to different tags
C17_OnDistinctColumns ==
  pc = "finish" /\ (\A tag \in CanonicalTags : Cardinality(ColumnsOf(tag)) <= 1) =>
    \A i \in 1..Len(all_records) :
      \A tag \in CanonicalTags : BareOrTriad(all_records[i], tag)


\* a record with the bare key of one rent column and the triad of the other
C17_BothKeys ==
  /\ pc = "finish"
  /\ workbook[1].grid = GridRentPair(Int_(1000), Txt(S("1.000 ") \o U_euro))
  /\ Len(all_records) = 2
  /\ Get(all_records[2], "monthly_rent") = Float(1000, 0)
  /\ Get(all_records[2], "monthly_rent_value") = Float(1000, 0)
  /\ Get(all_records[2], "monthly_rent_unit") = T("EUR")


(***************************************************************************)
(* The source identification of the records (Spec)                         *)
(***************************************************************************)
PROVENANCE_KEYS ==
  { "_source_file", "_source_sheet", "_source_row", "_extraction_timestamp" }

\* the place of the sheet of a record in sheets_to_process
SheetPlace(record) ==
  Min({ k \in 1..Len(sheets_to_process) :
          sheets_to_process[k] = Get(record, "_source_sheet").text })

SourceRow(record) == Get(record, "_source_row").m

\* the row of the grid a record names lies below the header row of its sheet
BelowHeader(record, grid) ==
  /\ SourceRow(record) \in 1..Len(grid)
  /\ SourceRow(record) > find_header_row(grid, HEADER_SCAN_ROWS).row + 1

HasProvenance(record) ==
  /\ PROVENANCE_KEYS \subseteq DOMAIN record
  /\ Get(record, "_source_file") = Txt(FILE_NAME)
  /\ \E k \in 1..Len(sheets_to_process) :
       sheets_to_process[k] = Get(record, "_source_sheet").text
  /\ Get(record, "_source_row").kind = "int"
  /\ Get(record, "_extraction_timestamp").kind = "int"
  /\ BelowHeader(record, SheetOf(excel_file, Get(record, "_source_sheet").text).grid)

\* the records are in the order of the sheets and, in a sheet, of the rows
InSourceOrder(records) ==
  \A i, j \in 1..Len(records) :
    i < j =>
      \/ SheetPlace(records[i]) < SheetPlace(records[j])
      \/ /\ SheetPlace(records[i]) = SheetPlace(records[j])
         /\ SourceRow(records[i]) < SourceRow(records[j])

ProvenanceInResult ==
  pc = "done" /\ excel_file # NotOpened =>
    /\ \A i \in 1..Len(result.data) : HasProvenance(result.data[i])
    /\ InSourceOrder(result.data)

ResolutionKeepsProvenance ==
  pc = "finish" =>
    /\ Len(all_records') = Len(all_records)
    /\ \A i \in 1..Len(all_records) :
         \A key \in PROVENANCE_KEYS :
           /\ key \in DOMAIN all_records[i]
           /\ Get(all_records'[i], key) = Get(all_records[i], key)

\* C18: every record of the result of read_excel has the four source keys:
\* _source_file, _source_sheet (the sheet the row was read from), _source_row
\* (the index of the row in the grid counted from 1, below the header row)
\* and _extraction_timestamp; the records are in the order of the chosen
\* sheets and, in a sheet, in increasing _source_row; the identity
\* resolution leaves the four keys as they are.
C18_Provenance == []ProvenanceInResult /\ [][ResolutionKeepsProvenance]_vars

\* records of two sheets, the identity resolution having changed the last
C18_Witness ==
  /\ pc = "done"
  /\ workbook = << Sheet("Mieterliste", GridRentRoll, TRUE),
                   Sheet("Tenants", GridTitled, TRUE) >>
  /\ Len(result.data) = 3
  /\ Get(result.data[1], "_source_sheet") = T("Mieterliste")
  /\ SourceRow(result.data[1]) = 2
  /\ SourceRow(result.data[2]) = 4
  /\ Get(result.data[3], "_source_sheet") = T("Tenants")
  /\ SourceRow(result.data[3]) = 3
  /\ Get(result.data[3], "tenant_id") = T("62210")


(***************************************************************************)
(* The order of the two tests of map_header (SpecMapper)                   *)
(***************************************************************************)
\* the tags with a synonym whose normalized form is the normalized header
ExactTags(normalized) ==
  { synonyms[i].tag : i \in { k \in 1..Len(synonyms) :
      \E j \in 1..Len(synonyms[k].syns) : NormalizedSynonyms[k][j] = normalized } }

\* C19: whenever the normalized header is equal to a normalized synonym of
\* some tag, map_header returns a tag that has the header as a synonym, also
\* when a synonym of more than 3 characters of an earlier tag is contained
\* in the header; the containment test decides only when no synonym is
\* equal to the header.
C19_ExactMatchFirst ==
  mapped # NotMapped /\ ExactTags(normalize_header(raw_header)) # {} =>
    mapped \in ExactTags(normalize_header(raw_header))

\* "jahresmiete" is a synonym of annual_rent and maps to monthly_rent
C19_SubstringWins ==
  /\ raw_header = S("jahresmiete")
  /\ ExactTags(normalize_header(raw_header)) = {"annual_rent"}
  /\ mapped = "monthly_rent"


(***************************************************************************)
(* Properties of find_header_row (SpecDetector)                            *)
(***************************************************************************)
\* the number of cells of row r (counted from 0) that map to a tag
RowScore(r) ==
  Cardinality({ c \in 1..Len(scanned_df[r + 1]) :
                  map_header(cell_text(scanned_df[r + 1][c])) # None })

\* the rows find_header_row looks at
ScannedRows == { r \in 0..(Len(scanned_df) - 1) : r < 30 }

\* the result is the first of the rows of the largest score
IsFirstBest(row, scores) ==
  /\ row \in DOMAIN scores
  /\ scores[row] >= 2
  /\ \A r \in DOMAIN scores : scores[r] <= scores[row]
  /\ \A r \in DOMAIN scores : scores[r] = scores[row] => row <= r

HeaderAsRuled(found, scores) ==
  /\ found.found => IsFirstBest(found.row, scores)
  /\ found.found => found.headers = RowHeaders(scanned_df[found.row + 1])
  /\ ~found.found <=> \A r \in DOMAIN scores : scores[r] < 2

\* C20: find_header_row returns, among the first 30 rows of the grid, the
\* row with the largest number of cells that map to a tag, the lowest row
\* winning a tie, and returns none exactly when that number is below 2; a
\* row of index 30 or more is never returned.
C20_BestHeaderRow ==
  header_found # NotSearched =>
    /\ HeaderAsRuled(header_found, [r \in ScannedRows |-> RowScore(r)])
    /\ header_found.found => header_found.row < 30

\* rows 28 and 29 have two header cells, row 30 has three: row 28 is returned
C20_Witness ==
  /\ header_found # NotSearched
  /\ Len(scanned_df) = 31
  /\ RowScore(28) = 2
  /\ RowScore(29) = 2
  /\ RowScore(30) = 3
  /\ header_found.found
  /\ header_found.row = 28

\* the only rows with header cells lie at index 30 and after: none is returned
C20_WitnessBeyond ==
  /\ header_found # NotSearched
  /\ Len(scanned_df) = 32
  /\ RowScore(30) = 3
  /\ ~header_found.found


(***************************************************************************)
(* Properties of select_best_sheet (Spec, process_all_sheets false)        *)
(***************************************************************************)
\* the sheets of the workbook, by index, that the selector does not skip
Candidates == { i \in 1..Len(workbook) : ~should_skip_sheet(workbook[i].name) }

\* the score of sheet i: 10 for a keyword in the name, plus the cells of its
\* first 30 rows that map to a tag
ScoreOf(i) ==
  (IF is_likely_rent_roll(workbook[i].name) THEN 10 ELSE 0)
    + (IF workbook[i].readable
       THEN _count_header_matches(FirstRows(workbook[i].grid, 30))
       ELSE 0)

\* sheet i is the first of the candidates of the highest score
FirstBestOf(i, scores) ==
  /\ i \in DOMAIN scores
  /\ \A j \in DOMAIN scores : scores[j] <= scores[i]
  /\ \A j \in DOMAIN scores : scores[j] = scores[i] => i <= j

\* the single sheet was selected
BestSheetSelected ==
  /\ "select" \in executed
  /\ ~process_all_sheets
  /\ excel_file # NotOpened
  /\ pc # "done"

SelectedIs(name) == sheets_to_process = <<name>>

\* the fallback to the first sheet as the claim has it
SelectedAsStated(scores) ==
  IF Len(workbook) = 1 \/ \A i \in DOMAIN scores : scores[i] <= 0
  THEN SelectedIs(workbook[1].name)
  ELSE \E i \in DOMAIN scores :
         FirstBestOf(i, scores) /\ SelectedIs(workbook[i].name)

\* the fallback to the first sheet as the code has it
SelectedAsCoded(scores) ==
  IF Len(workbook) = 1 \/ DOMAIN scores = {}
  THEN SelectedIs(workbook[1].name)
  ELSE \E i \in DOMAIN scores :
         FirstBestOf(i, scores) /\ SelectedIs(workbook[i].name)

\* C21 as stated: select_best_sheet returns the first sheet that is not
\* skipped of the highest score, and the first sheet of the workbook when
\* the workbook has one sheet or no sheet has a positive score.
C21_BestSheetAsStated ==
  BestSheetSelected => SelectedAsStated([i \in Candidates |-> ScoreOf(i)])

\* C21: select_best_sheet returns the first sheet that is not skipped of the
\* highest score, a score of 0 included, and the first sheet of the workbook
\* when the workbook has one sheet or every sheet is skipped.
C21_BestSheet ==
  BestSheetSelected => SelectedAsCoded([i \in Candidates |-> ScoreOf(i)])

\* the sheets Summary and Info, Info without a header cell: Info is selected
C21_Witness ==
  /\ BestSheetSelected
  /\ workbook = << Sheet("Summary", GridRentRoll, TRUE), Sheet("Info", GridNoCells, TRUE) >>
  /\ ScoreOf(2) = 0
  /\ SelectedIs(S("Info"))


(***************************************************************************)
(* Properties of the identity resolution (SpecResolver)                    *)
(***************************************************************************)
\* the field is in the record and is not the empty text
Filled(record, key) == key \in DOMAIN record /\ record[key].text # <<>>

\* the keys of a sequence that are filled in the record, in their order
FilledOf(record, keys) == SelectSeq(keys, LAMBDA key : Filled(record, key))

\* the texts joined with '-'
RECURSIVE Joined(_)
Joined(texts) ==
  IF Len(texts) = 1 THEN texts[1]
  ELSE texts[1] \o S("-") \o Joined(Tail(texts))

\* business unit, or business unit code when there is no business unit
UnitKey(record) ==
  IF Filled(record, "business_unit") THEN "business_unit" ELSE "business_unit_code"

\* the unit_id of a record without unit_id, from the filled keys of the
\* identifiers and of the parts
UnitFrom(given, resolved, identifiers, parts) ==
  IF identifiers # <<>> THEN Get(resolved, "unit_id") = given[identifiers[1]]
  ELSE IF parts # <<>>
  THEN Get(resolved, "unit_id") = Txt(Joined([i \in 1..Len(parts) |-> given[parts[i]].text]))
  ELSE Get(resolved, "unit_id") = Get(given, "unit_id")
       /\ ("unit_id" \in DOMAIN resolved <=> "unit_id" \in DOMAIN given)

UnitResolved(given, resolved) ==
  IF Filled(given, "unit_id") THEN Get(resolved, "unit_id") = given["unit_id"]
  ELSE UnitFrom(given, resolved,
         FilledOf(given, <<"composite_unit_id", "sap_object_number", "contract_id">>),
         FilledOf(given, <<"bookkeeping_area", UnitKey(given), "mo_number">>))

\* C22: after the identity pass a record that had a unit_id keeps it;
\* otherwise unit_id is the first filled of composite_unit_id,
\* sap_object_number and contract_id, and failing these the '-' join of the
\* filled ones of bookkeeping area, business unit (or business unit code)
\* and object number, in this order; unit_id stays as it was only when all
\* of these are empty.
C22_UnitIdResolution ==
  passes >= 1 =>
    \A i \in 1..Len(given_records) :
      UnitResolved(given_records[i], resolved_records[i])

\* the unit_id joined of three parts, the business unit code standing in
C22_Witness ==
  /\ passes = 1
  /\ DOMAIN given_records[1] = {"bookkeeping_area", "business_unit_code", "mo_number"}
  /\ Get(resolved_records[1], "unit_id") = T("0100-B2-7")

\* the SAP object number wins over the contract number
C22_WitnessPriority ==
  /\ passes = 1
  /\ DOMAIN given_records[1] = {"sap_object_number", "contract_id", "mo_number"}
  /\ Get(resolved_records[1], "unit_id") = T("S9")


\* the tenant_name of the record is made of digits and is not phone-shaped
DigitTenantName(record) ==
  /\ "tenant_name" \in DOMAIN record
  /\ IsDigitString(WithoutDotZero(record["tenant_name"].text))
  /\ ~IsPhoneShaped(WithoutDotZero(record["tenant_name"].text))

\* C26: after the identity pass no record has a tenant_name that is made of
\* digits only and is not phone-shaped, every such value being moved to
\* tenant_id, also when the name comes from the contractual partner.
C26_NoDigitTenantName ==
  passes = 1 =>
    \A i \in 1..Len(resolved_records) : ~DigitTenantName(resolved_records[i])

\* the partner "12345" became the tenant_name, and no tenant_id was set
C26_PartnerDigitsAsName ==
  /\ passes = 1
  /\ "tenant_name" \notin DOMAIN given_records[1]
  /\ Get(given_records[1], "contractual_partner") = T("12345")
  /\ Get(resolved_records[1], "tenant_name") = T("12345")
  /\ "tenant_id" \notin DOMAIN resolved_records[1]

IDENTITY_KEYS == { "tenant_name", "tenant_id", "unit_id", "asset_id" }

SameIdentity(first, second) ==
  \A key \in IDENTITY_KEYS :
    /\ key \in DOMAIN first <=> key \in DOMAIN second
    /\ Get(first, key) = Get(second, key)

\* C27: the identity pass is idempotent: a second call of
\* _resolve_tenant_and_unit changes tenant_name, tenant_id, unit_id and
\* asset_id of no record.
C27_Idempotent ==
  [][passes = 1 =>
       /\ Len(resolved_records') = Len(resolved_records)
       /\ \A i \in 1..Len(resolved_records) :
            SameIdentity(resolved_records[i], resolved_records'[i])]_vars

\* the second pass moved the name taken from the partner to tenant_id
C27_SecondPassMoves ==
  /\ passes = 2
  /\ "tenant_name" \notin DOMAIN given_records[1]
  /\ Get(given_records[1], "contractual_partner") = T("12345")
  /\ Get(resolved_records[1], "tenant_id") = T("12345")
  /\ "tenant_name" \notin DOMAIN resolved_records[1]


(***************************************************************************)
(* The digit strings whose only separator is the dot (SpecParser)          *)
(***************************************************************************)
DotOnly(s) == Count(s, ".") > 0 /\ Count(s, ",") = 0 /\ Count(s, "'") = 0

Dots(s) == { i \in 1..Len(s) : s[i] = "." }

\* the digits between the dot at i and the next dot or the end of s
DigitsAfter(s, i) ==
  Min({ j \in Dots(s) \cup {Len(s) + 1} : j > i }) - i - 1

\* the dots of s that are not followed by exactly 3 digits
DecimalDots(s) == { i \in Dots(s) : DigitsAfter(s, i) # 3 }

\* the dots followed by 3 digits group, a last dot followed by another
\* number of digits is the decimal point
DotPolicy(s, number) ==
  /\ DecimalDots(s) = {} => number = AllGrouping(s)
  /\ DecimalDots(s) = {LastSeparator(s)} => number = LastIsDecimal(s)

\* C23: for a digit string whose only separator is the dot, a dot followed
\* by exactly 3 digits is a grouping separator and is removed ("1.234" is
\* 1234, "1.234.567" is 1234567), a dot followed by another number of digits
\* is the decimal point ("99.5" is 99.5, "1.2345" is 1.2345).
C23_DotOnlyPolicy ==
  ParsedDigitString /\ DotOnly(value.text) => DotPolicy(value.text, parsed.value)

\* C23 for the strings with one dot
C23_SingleDot ==
  ParsedDigitString /\ DotOnly(value.text) /\ Count(value.text, ".") = 1
    => DotPolicy(value.text, parsed.value)

\* "1.234.567" has no value
C23_TwoDotsNoValue ==
  /\ parsed # NotCalled
  /\ value = T("1.234.567")
  /\ DecimalDots(value.text) = {}
  /\ parsed.value = NoneVal


(***************************************************************************)
(* The sign of the number in each mode of parse (SpecParser)               *)
(***************************************************************************)
\* the text has a minus or an opening parenthesis
HasSignMarker(text) == Count(text, "-") > 0 \/ Count(text, "(") > 0

NegativeKept(unit) ==
  value.text \in { WithMinus(unit), InParentheses(unit) }
    => parsed.value = Float(-500, 0)

\* C24: whenever the number of a cell has a leading minus or stands in
\* parentheses, parse returns the negative value of the same magnitude, for
\* a pure number, a currency, an area, a duration and a percentage alike; a
\* value without such a marker is never negative.
C24_SignPreserved ==
  ParsedText =>
    /\ \A unit \in SIGN_UNITS : NegativeKept(unit)
    /\ ~HasSignMarker(value.text) /\ IsNumber(parsed.value) => parsed.value.m >= 0

\* C24 without the percentage
C24_SignPreservedButPercent ==
  ParsedText =>
    /\ \A unit \in SIGN_UNITS \ {S("%")} : NegativeKept(unit)
    /\ ~HasSignMarker(value.text) /\ IsNumber(parsed.value) => parsed.value.m >= 0

\* "-500%" has the value 500
C24_PercentLosesSign ==
  /\ parsed # NotCalled
  /\ value = Txt(WithMinus(S("%")))
  /\ parsed.value = Float(500, 0)
  /\ parsed.unit = T("%")


(***************************************************************************)
(* The rows extract_data keeps (SpecRows, sheets of GridRows)              *)
(***************************************************************************)
\* the sheet has the columns tenant, partner, unit and rent
FourColumns == Len(workbook[1].grid[1]) = 4

\* the last row of the sheet
LastRow == workbook[1].grid[3]

\* the cell holds a text that is not blank, or a number
CellFilled(cell) == ~IsNone(cell) /\ strip(cell_str(cell)) # <<>>

\* the cell holds a rent that is not zero
RentFilled(cell) == NotEmptyOrZero(parse(cell, get_field_type_hint("monthly_rent")).value)

\* the last row gave a record
LastRowKept == \E i \in 1..Len(all_records) : SourceRow(all_records[i]) = 3

\* C25: a data row before the summary marker gives a record iff one of its
\* meaningful fields is filled and not zero: tenant name, unit id, a rent
\* value, an area value or a secondary identifier such as the contractual
\* partner; a row whose only filled cell is a monthly rent written as a plain
\* number is kept.
C25_RowRetention ==
  pc = "finish" /\ FourColumns =>
    (LastRowKept <=> \/ CellFilled(LastRow[1])
                     \/ CellFilled(LastRow[2])
                     \/ CellFilled(LastRow[3])
                     \/ RentFilled(LastRow[4]))

\* a row with the rent -100 as a plain number and nothing else gives no record
C25_PlainRentDropped ==
  /\ pc = "finish"
  /\ LastRow = <<NaN, NaN, NaN, Int_(-100)>>
  /\ Len(all_records) = 1
  /\ ~LastRowKept


(***************************************************************************)
(* The headers after the merge with the row above (SpecDetector)           *)
(***************************************************************************)
\* the headers were merged with a row above the header row
MergedWithRowAbove == merged_headers # NotMerged /\ header_found.row > 0

\* every column keeps the tag of its cell in the header row
TagsKept(headers, merged) ==
  \A col \in 1..Len(headers) :
    map_header(headers[col]) # None
      => map_header(merged[col]) = map_header(headers[col])

MappedColumns(merged) ==
  Cardinality({ col \in 1..Len(merged) : map_header(merged[col]) # None })

\* C28: when the header row is not the first row, every column whose cell in
\* the header row maps to a tag maps to the same tag after the text of the
\* row above is joined in front, so at least the 2 columns that made the row
\* a header stay mapped, also under a title row and for aliases of at most 3
\* characters.
C28_MergeKeepsTags ==
  MergedWithRowAbove =>
    /\ TagsKept(header_found.headers, merged_headers)
    /\ MappedColumns(merged_headers) >= 2

\* under the row "Lorem" the column "BK" maps to no tag
C28_ShortAliasLost ==
  /\ MergedWithRowAbove
  /\ header_found.headers = <<S("BK"), S("Status"), S("Miete")>>
  /\ map_header(header_found.headers[1]) = "bookkeeping_area"
  /\ merged_headers[1] = S("Lorem BK")
  /\ map_header(merged_headers[1]) = None

\* under the title "Rent Roll 2024" the column "BK" maps to monthly_rent
C28_TitleChangesTag ==
  /\ MergedWithRowAbove
  /\ header_found.headers = <<S("BK"), S("Status"), S("Miete")>>
  /\ merged_headers[1] = S("Rent Roll 2024 BK")
  /\ map_header(merged_headers[1]) = "monthly_rent"


(***************************************************************************)
(* The pure-number parse on texts with several digit groups (SpecParser)   *)
(***************************************************************************)
\* text without a leading minus or the parentheses around it
WithoutSignMarker(text) ==
  IF text # <<>> /\ text[1] = "-" THEN Tail(text)
  ELSE IF Len(text) >= 2 /\ text[1] = "(" /\ text[Len(text)] = ")"
  THEN SubSeq(text, 2, Len(text) - 1)
  ELSE text

\* the digits and the separators of numbers
NUMBER_CHARS == Digits \cup {",", ".", "'"}

OnlyNumberChars(text) ==
  text # <<>> /\ \A i \in 1..Len(text) : text[i] \in NUMBER_CHARS

\* text is a number once marker, operator and sign are taken off
IsPureNumber(text) ==
  OnlyNumberChars(strip(WithoutSignMarker(strip(_clean_prefixes(strip(text))))))

\* C29: for a text without unit the value of parse is a number only when the
\* text, without a leading approximation marker, operator and sign, is made
\* of digits and the separators , . ' alone; a text with other characters
\* between groups of digits has the value None, and a field that is not a
\* text field then stores the text.
C29_NoFusedDigitGroups ==
  ParsedText /\ ~Truthy(parsed.unit) /\ ~IsPureNumber(value.text) =>
    /\ parsed.value = NoneVal
    /\ Get(StoredRent, "monthly_rent") = Txt(strip(value.text))

\* C29 on the texts that have no digit or are pure numbers
C29_OnOtherTexts ==
  ParsedText /\ ~Truthy(parsed.unit) /\ ~IsPureNumber(value.text)
    /\ value.text \notin GROUPED_TEXTS \ {S("n/a soon")}
    /\ value.text \notin CURRENCY_TEXTS =>
      /\ parsed.value = NoneVal
      /\ Get(StoredRent, "monthly_rent") = Txt(strip(value.text))

\* the date 2020-01-15 has the value 20200115
C29_DateFused ==
  /\ parsed # NotCalled
  /\ value = T("2020-01-15")
  /\ parsed.unit = NoneVal
  /\ parsed.value = Float(20200115, 0)
  /\ Get(StoredRent, "monthly_rent") = Float(20200115, 0)


(***************************************************************************)
(* The success flag of the results (SpecServer)                            *)
(***************************************************************************)
SuccessIffRecords(res) ==
  /\ res.success <=> Len(res.data) > 0
  /\ res.total_rows_extracted = Len(res.data)

\* C30: in every result of read_excel success is true exactly when the list
\* of records is not empty, and total_rows_extracted is the length of the
\* list: a workbook whose sheets have a header and no data row gives success
\* false without a warning, a workbook with a failed sheet gives success
\* true when another sheet gave a record.
C30_SuccessIffRecords ==
  \A t \in THREADS : frames[t].pc = "done" => SuccessIffRecords(frames[t].result)

\* one call on a header without data: no success, no warning; the other
\* call with a sheet without header row and records of other sheets: success
C30_Witness ==
  /\ frames[1].pc = "done"
  /\ frames[2].pc = "done"
  /\ frames[1].workbook = <<ServerSheet("Neubau", GridHeaderOnly)>>
  /\ frames[1].excel_file # NotOpened
  /\ ~frames[1].result.success
  /\ frames[1].result.warnings = <<>>
  /\ frames[1].result.sheets_processed = 1
  /\ frames[2].result.success
  /\ Len(frames[2].result.warnings) > 0
  /\ Len(frames[2].result.data) > 0

====
